---- MODULE Spec2Model ----
(***************************************************************************)
(* Model of the e-commerce analytics core: the metric functions of         *)
(* business_metrics.py and the period filter of data_loader.py.            *)
(*                                                                         *)
(* A pandas DataFrame is a sequence of rows (records); a nullable cell is  *)
(* <<>> (NaN / NaT / None) or <<v>>.  A float result is an exact rational  *)
(* [kind |-> "num", num, den], or NaN, or +/-inf.  Money is counted in     *)
(* whole units, a timestamp in seconds since 00:00:00 on 1 January of      *)
(* EpochYear.                                                              *)
(***************************************************************************)
EXTENDS Integers, Sequences, FiniteSets, TLC

VARIABLES sales, revenue_by_month, result

vars == <<sales, revenue_by_month, result>>

(***************************************************************************)
(* Bounds of the model and the input domains.                              *)
(***************************************************************************)
MaxRows == 3
MaxReviewRows == 4
MaxAmount == 3
MaxMonthRows == 3
MaxRevenue == 2
MaxFilterRows == 2
MaxSpeedRows == 2
MaxDays == 10
MaxDeliveryRows == 3
MaxCompareRows == 2
MaxItemRows == 2
MaxPeriodRows == 3
MaxSummaryRows == 2
MaxBreakdownRows == 3
MaxOrderRows == 3
MaxStageRows == 2
MaxHeapRows == 2

OrderIds == {1, 2}
Prices == {1, 2, 5}
\* product_category_name values, numbered in lexicographic order
Categories == {1, 2}
ReviewScores == {2, 5}
Years == {2023, 2024}
MonthsOfYear == {1, 2, 12}
\* months of the purchase timestamps: February (28/29 days) and December
StampMonths == {2, 12}
\* start_month / end_month arguments, valid or not
BoundMonths == 0..13
EpochYear == 2022
SecondsPerDay == 86400

(***************************************************************************)
(* Cells and floats.                                                       *)
(***************************************************************************)
Null == <<>>
Some(v) == <<v>>
IsNull(c) == c = <<>>
Val(c) == c[1]

NaN == [kind |-> "nan"]
PosInf == [kind |-> "inf", sign |-> 1]
NegInf == [kind |-> "inf", sign |-> -1]
Num(n) == [kind |-> "num", num |-> n, den |-> 1]
IsNum(x) == x.kind = "num"

\* x / y on floats holding the integers x and y (numpy: no exception on y = 0)
FloatDiv(x, y) ==
    IF y = 0
    THEN IF x = 0 THEN NaN ELSE IF x > 0 THEN PosInf ELSE NegInf
    ELSE IF y > 0 THEN [kind |-> "num", num |-> x, den |-> y]
         ELSE [kind |-> "num", num |-> -x, den |-> -y]

\* equality of two floats as numbers
SameNumber(a, b) ==
    /\ a.kind = b.kind
    /\ a.kind = "num" => a.num * b.den = b.num * a.den
    /\ a.kind = "inf" => a.sign = b.sign

\* x == 0 on a float (False for NaN)
IsZero(x) == x.kind = "num" /\ x.num = 0

\* x - y on finite floats or NaN
FloatMinus(x, y) ==
    IF x.kind = "nan" \/ y.kind = "nan" THEN NaN
    ELSE [kind |-> "num", num |-> x.num * y.den - y.num * x.den, den |-> x.den * y.den]

\* x / y on finite floats or NaN
FloatQuot(x, y) ==
    IF x.kind = "nan" \/ y.kind = "nan" THEN NaN
    ELSE FloatDiv(x.num * y.den, x.den * y.num)

NoCall == [op |-> "none"]

(***************************************************************************)
(* pandas primitives used by the metric functions.                         *)
(***************************************************************************)
\* Series.sum(): NaN cells are skipped, the empty sum is 0
RECURSIVE SeriesSum(_)
SeriesSum(s) ==
    IF s = <<>> THEN 0
    ELSE IF IsNull(s[1]) THEN SeriesSum(Tail(s))
         ELSE Val(s[1]) + SeriesSum(Tail(s))

\* Series.count(): the number of non-null cells
RECURSIVE SeriesCount(_)
SeriesCount(s) ==
    IF s = <<>> THEN 0
    ELSE IF IsNull(s[1]) THEN SeriesCount(Tail(s))
         ELSE 1 + SeriesCount(Tail(s))

\* Series.mean(): the mean of the non-null cells, NaN when there is none
SeriesMean(s) ==
    IF SeriesCount(s) = 0 THEN NaN
    ELSE FloatDiv(SeriesSum(s), SeriesCount(s))

\* df[col] as a sequence of cells
Column(df, col) == [i \in 1..Len(df) |-> df[i][col]]

\* the ascending sequence of a finite set of integers
RECURSIVE SortedSeq(_)
SortedSeq(S) ==
    IF S = {} THEN <<>>
    ELSE LET m == CHOOSE x \in S : \A y \in S : x <= y
         IN <<m>> \o SortedSeq(S \ {m})

\* the group keys of df.groupby(col): the non-null values of col, ascending
\* (sort=True); rows whose key is null belong to no group (dropna=True)
GroupKeys(df, col) ==
    SortedSeq({Val(df[i][col]) : i \in {j \in 1..Len(df) : ~IsNull(df[j][col])}})

\* the rows of the group with key k, in their order in df
RECURSIVE GroupRows(_, _, _)
GroupRows(df, col, k) ==
    IF df = <<>> THEN <<>>
    ELSE IF df[1][col] = Some(k) THEN <<df[1]>> \o GroupRows(Tail(df), col, k)
         ELSE GroupRows(Tail(df), col, k)

\* df.groupby(col)[valcol].sum() as a sequence of [key, value], keys ascending
GroupBySum(df, col, valcol) ==
    LET keys == GroupKeys(df, col)
    IN [i \in 1..Len(keys) |->
            [key |-> keys[i],
             value |-> SeriesSum(Column(GroupRows(df, col, keys[i]), valcol))]]

\* df.groupby(col).size()
GroupBySize(df, col) ==
    LET keys == GroupKeys(df, col)
    IN [i \in 1..Len(keys) |->
            [key |-> keys[i], value |-> Len(GroupRows(df, col, keys[i]))]]

\* Series.sort_values(ascending=False): descending by value; equal values keep
\* their order (nargsort reverses, sorts and reverses back)
RECURSIVE InsertDescending(_, _)
InsertDescending(g, s) ==
    IF s = <<>> THEN <<g>>
    ELSE IF s[1].value >= g.value THEN <<s[1]>> \o InsertDescending(g, Tail(s))
         ELSE <<g>> \o s

RECURSIVE SortValuesDescending(_)
SortValuesDescending(s) ==
    IF s = <<>> THEN <<>>
    ELSE LET rest == SortValuesDescending([i \in 1..(Len(s) - 1) |-> s[i]])
         IN InsertDescending(s[Len(s)], rest)

\* df[cols]: the projection of every row on the columns cols
Project(df, cols) == [i \in 1..Len(df) |-> [c \in cols |-> df[i][c]]]

\* df.drop_duplicates(): the first occurrence of every distinct row
RECURSIVE DropDuplicates(_)
DropDuplicates(df) ==
    IF df = <<>> THEN <<>>
    ELSE LET init == [i \in 1..(Len(df) - 1) |-> df[i]]
             last == df[Len(df)]
         IN IF \E i \in 1..Len(init) : init[i] = last
            THEN DropDuplicates(init)
            ELSE DropDuplicates(init) \o <<last>>

\* the values of a grouped result as a Series
Values(g) == [i \in 1..Len(g) |-> Some(g[i].value)]

(***************************************************************************)
(* business_metrics.py                                                     *)
(***************************************************************************)
\* (a variant that counts one line item per order)
total_revenue_per_order(sales_data) ==
    SeriesSum([i \in 1..Len(sales_data) |->
                  IF \E j \in 1..(i - 1) : sales_data[j].order_id = sales_data[i].order_id
                  THEN Null ELSE sales_data[i].price])

calculate_total_revenue(sales_data) == SeriesSum(Column(sales_data, "price"))

\* (a variant without the guard on a zero base)
growth_without_zero_guard(current_revenue, previous_revenue) ==
    FloatQuot(FloatMinus(current_revenue, previous_revenue), previous_revenue)

calculate_revenue_growth(current_revenue, previous_revenue) ==
    IF IsZero(previous_revenue)
    THEN Num(0)
    ELSE LET growth == FloatQuot(FloatMinus(current_revenue, previous_revenue),
                                 previous_revenue)
         IN growth

\* Series.pct_change(): NaN in the first row, then (x[i] - x[i-1]) / x[i-1] in
\* float arithmetic, on a Series without null cells
PctChange(x) ==
    [i \in 1..Len(x) |->
        IF i = 1 THEN NaN ELSE FloatDiv(Val(x[i]) - Val(x[i - 1]), Val(x[i - 1]))]

\* (a variant that divides by the row's own revenue)
mom_growth_over_current(revenue_by_month_) ==
    [i \in 1..Len(revenue_by_month_) |->
        [year |-> revenue_by_month_[i].year,
         month |-> revenue_by_month_[i].month,
         revenue |-> revenue_by_month_[i].revenue,
         mom_growth |->
            IF i = 1 THEN NaN
            ELSE FloatDiv(Val(revenue_by_month_[i].revenue)
                              - Val(revenue_by_month_[i - 1].revenue),
                          Val(revenue_by_month_[i].revenue))]]

calculate_mom_growth(revenue_by_month_) ==
    LET growth == PctChange(Column(revenue_by_month_, "revenue"))
    IN [i \in 1..Len(revenue_by_month_) |->
            [year |-> revenue_by_month_[i].year,
             month |-> revenue_by_month_[i].month,
             revenue |-> revenue_by_month_[i].revenue,
             mom_growth |-> growth[i]]]

\* (a variant that averages over line items)
average_price_per_row(sales_data) == SeriesMean(Column(sales_data, "price"))

calculate_average_order_value(sales_data) ==
    LET order_totals == GroupBySum(sales_data, "order_id", "price")
    IN SeriesMean(Values(order_totals))

\* (a variant that counts line items)
count_rows(sales_data) == Len(sales_data)

\* Series.nunique(): the number of distinct non-null values
calculate_total_orders(sales_data) ==
    Cardinality({Val(sales_data[i].order_id) :
                    i \in {j \in 1..Len(sales_data) : ~IsNull(sales_data[j].order_id)}})

calculate_revenue_by_category(sales_data) ==
    LET category_revenue ==
            SortValuesDescending(GroupBySum(sales_data, "product_category_name", "price"))
    IN [i \in 1..Len(category_revenue) |->
            [category |-> Some(category_revenue[i].key),
             revenue |-> category_revenue[i].value]]

calculate_revenue_by_state(sales_data) ==
    LET state_revenue ==
            SortValuesDescending(GroupBySum(sales_data, "customer_state", "price"))
    IN [i \in 1..Len(state_revenue) |->
            [state |-> Some(state_revenue[i].key),
             revenue |-> state_revenue[i].value]]

calculate_average_review_score(sales_data) ==
    SeriesMean(Column(sales_data, "review_score"))

calculate_items_per_order(sales_data) ==
    LET items_per_order == GroupBySize(sales_data, "order_id")
    IN SeriesMean(Values(items_per_order))

\* Series.value_counts().sort_index() and value_counts(normalize=True) * 100:
\* the null cells are not counted
calculate_review_score_distribution(sales_data) ==
    LET review_data == DropDuplicates(Project(sales_data, {"order_id", "review_score"}))
        scores == Column(review_data, "review_score")
        index == SortedSeq({Val(scores[i]) : i \in {j \in 1..Len(scores) : ~IsNull(scores[j])}})
        CountOf(s) == Cardinality({i \in 1..Len(scores) : scores[i] = Some(s)})
    IN [k \in 1..Len(index) |->
            [review_score |-> index[k],
             count |-> CountOf(index[k]),
             percentage |-> FloatDiv(100 * CountOf(index[k]), SeriesCount(scores))]]

\* (a variant that averages over the line items)
average_delivery_per_row(sales_data) ==
    SeriesMean(Column(sales_data, "delivery_speed_days"))

calculate_average_delivery_time(sales_data) ==
    LET delivery_data == DropDuplicates(Project(sales_data,
                             {"order_id", "delivery_speed_days"}))
    IN SeriesMean(Column(delivery_data, "delivery_speed_days"))

\* raise KeyError(...): a column that the frame does not have
SummaryRaised == [raised |-> TRUE, summary |-> <<>>]

\* (a variant that reads review_score whether the frame has it or not)
summary_with_review_score(sales_data, orders_data) ==
    IF "review_score" \notin sales_data.columns
    THEN SummaryRaised
    ELSE [raised |-> FALSE,
          summary |->
            [total_revenue |-> calculate_total_revenue(sales_data.rows),
             total_orders |-> calculate_total_orders(sales_data.rows),
             average_order_value |-> calculate_average_order_value(sales_data.rows),
             average_items_per_order |-> calculate_items_per_order(sales_data.rows),
             average_review_score |-> calculate_average_review_score(sales_data.rows)]
            @@ (IF "delivery_speed_days" \in sales_data.columns
                THEN "average_delivery_days"
                         :> calculate_average_delivery_time(sales_data.rows)
                ELSE <<>>)]

\* sales_data is a frame [columns, rows], so that a frame without rows has
\* columns too; orders_data is accepted and never read
generate_summary_statistics(sales_data, orders_data) ==
    LET summary ==
            [total_revenue |-> calculate_total_revenue(sales_data.rows),
             total_orders |-> calculate_total_orders(sales_data.rows),
             average_order_value |-> calculate_average_order_value(sales_data.rows),
             average_items_per_order |-> calculate_items_per_order(sales_data.rows)]
        with_review ==
            IF "review_score" \in sales_data.columns
            THEN summary @@ ("average_review_score"
                                :> calculate_average_review_score(sales_data.rows))
            ELSE summary
        with_delivery ==
            IF "delivery_speed_days" \in sales_data.columns
            THEN with_review @@ ("average_delivery_days"
                                    :> calculate_average_delivery_time(sales_data.rows))
            ELSE with_review
    IN [raised |-> FALSE, summary |-> with_delivery]

\* the ascending sequence of a finite set of (year, month) pairs
RECURSIVE SortedPairs(_)
SortedPairs(S) ==
    IF S = {} THEN <<>>
    ELSE LET m == CHOOSE x \in S :
                     \A y \in S : x[1] < y[1] \/ (x[1] = y[1] /\ x[2] <= y[2])
         IN <<m>> \o SortedPairs(S \ {m})

\* sales_data.groupby(['year', 'month'])['price'].sum().reset_index(): one row
\* per (year, month) with both keys present, ascending
GroupByYearMonthSum(sales_data) ==
    LET keyed == {i \in 1..Len(sales_data) :
                     ~IsNull(sales_data[i].year) /\ ~IsNull(sales_data[i].month)}
        keys == SortedPairs({<<Val(sales_data[i].year), Val(sales_data[i].month)>> :
                                i \in keyed})
    IN [k \in 1..Len(keys) |->
            [year |-> keys[k][1],
             month |-> keys[k][2],
             revenue |->
                Some(SeriesSum([i \in 1..Len(sales_data) |->
                        IF i \in keyed /\ Val(sales_data[i].year) = keys[k][1]
                                       /\ Val(sales_data[i].month) = keys[k][2]
                        THEN sales_data[i].price ELSE Null]))]]

\* raise ValueError(...)
PeriodRaised == [raised |-> TRUE, revenue |-> <<>>]

\* (a variant that falls back to the default period)
revenue_by_period_with_default(sales_data, period) ==
    LET by_month == GroupBySum(sales_data, "month", "price")
        by_year == GroupBySum(sales_data, "year", "price")
    IN IF period = "year"
       THEN [raised |-> FALSE,
             revenue |-> [i \in 1..Len(by_year) |->
                             [year |-> by_year[i].key, revenue |-> Some(by_year[i].value)]]]
       ELSE IF period = "year-month"
       THEN [raised |-> FALSE, revenue |-> GroupByYearMonthSum(sales_data)]
       ELSE [raised |-> FALSE,
             revenue |-> [i \in 1..Len(by_month) |->
                             [month |-> by_month[i].key,
                              revenue |-> Some(by_month[i].value)]]]

calculate_revenue_by_period(sales_data, period) ==
    IF period = "year"
    THEN LET revenue == GroupBySum(sales_data, "year", "price")
         IN [raised |-> FALSE,
             revenue |-> [i \in 1..Len(revenue) |->
                             [year |-> revenue[i].key, revenue |-> Some(revenue[i].value)]]]
    ELSE IF period = "month"
    THEN LET revenue == GroupBySum(sales_data, "month", "price")
         IN [raised |-> FALSE,
             revenue |-> [i \in 1..Len(revenue) |->
                             [month |-> revenue[i].key, revenue |-> Some(revenue[i].value)]]]
    ELSE IF period = "year-month"
    THEN [raised |-> FALSE, revenue |-> GroupByYearMonthSum(sales_data)]
    ELSE PeriodRaised

(***************************************************************************)
(* data_loader.py: the period filter.                                      *)
(***************************************************************************)
IsLeapYear(y) == (y % 4 = 0 /\ y % 100 # 0) \/ y % 400 = 0

DaysInMonth(y, m) ==
    IF m = 2 THEN (IF IsLeapYear(y) THEN 29 ELSE 28)
    ELSE IF m \in {4, 6, 9, 11} THEN 30 ELSE 31

\* days from 1 January of EpochYear to 1 January of y, for y >= EpochYear
RECURSIVE DaysBeforeYear(_)
DaysBeforeYear(y) ==
    IF y <= EpochYear THEN 0
    ELSE DaysBeforeYear(y - 1) + (IF IsLeapYear(y - 1) THEN 366 ELSE 365)

\* days from 1 January of y to day 1 of month m
RECURSIVE DaysBeforeMonth(_, _)
DaysBeforeMonth(y, m) ==
    IF m <= 1 THEN 0 ELSE DaysBeforeMonth(y, m - 1) + DaysInMonth(y, m - 1)

\* pd.Timestamp(year=, month=, day=): midnight of that day; a month outside
\* 1..12 or a day outside the month raises ValueError
Timestamp(year, month, day) ==
    IF month \in 1..12 /\ day \in 1..DaysInMonth(year, month)
    THEN [raised |-> FALSE,
          value |-> (DaysBeforeYear(year) + DaysBeforeMonth(year, month) + (day - 1))
                        * SecondsPerDay]
    ELSE [raised |-> TRUE, value |-> 0]

\* pd.Timedelta(hours=23, minutes=59, seconds=59)
EndOfDay == 23 * 3600 + 59 * 60 + 59

\* df[(df[date_column] >= start_date) & (df[date_column] <= end_date)]: a NaT
\* compares False with everything
RECURSIVE RowsBetween(_, _, _)
RowsBetween(df, start_date, end_date) ==
    IF df = <<>> THEN <<>>
    ELSE LET t == df[1].order_purchase_timestamp
             keep == /\ ~IsNull(t)
                     /\ Val(t) >= start_date
                     /\ Val(t) <= end_date
         IN (IF keep THEN <<df[1]>> ELSE <<>>) \o RowsBetween(Tail(df), start_date, end_date)

FilterRaised == [raised |-> TRUE, start_date |-> 0, end_date |-> 0, df |-> <<>>]

\* (a variant whose end bound is midnight of the last day)
filter_until_midnight(df, start_year, start_month, end_year, end_month) ==
    LET start_date == Timestamp(start_year, start_month, 1)
        next_month == IF end_month = 12
                      THEN Timestamp(end_year + 1, 1, 1)
                      ELSE Timestamp(end_year, end_month + 1, 1)
    IN IF start_date.raised \/ next_month.raised
       THEN FilterRaised
       ELSE LET end_date == next_month.value - SecondsPerDay
            IN [raised |-> FALSE,
                start_date |-> start_date.value,
                end_date |-> end_date,
                df |-> RowsBetween(df, start_date.value, end_date)]

\* (a variant that returns the kept rows with their timestamp moved by a day)
filter_shifting_timestamps(df, start_year, start_month, end_year, end_month) ==
    LET start_date == Timestamp(start_year, start_month, 1)
        next_month == IF end_month = 12
                      THEN Timestamp(end_year + 1, 1, 1)
                      ELSE Timestamp(end_year, end_month + 1, 1)
    IN IF start_date.raised \/ next_month.raised
       THEN FilterRaised
       ELSE LET end_date == next_month.value - SecondsPerDay + EndOfDay
                kept == RowsBetween(df, start_date.value, end_date)
            IN [raised |-> FALSE,
                start_date |-> start_date.value,
                end_date |-> end_date,
                df |-> [i \in 1..Len(kept) |->
                           [kept[i] EXCEPT !.order_purchase_timestamp =
                               Some(Val(@) + SecondsPerDay)]]]

\* the call returns the filtered table; start_date and end_date are its locals
\* (a variant that puts the two bounds in order before filtering)
filter_ordering_bounds(df, start_year, start_month, end_year, end_month) ==
    LET start_date == Timestamp(start_year, start_month, 1)
        next_month == IF end_month = 12
                      THEN Timestamp(end_year + 1, 1, 1)
                      ELSE Timestamp(end_year, end_month + 1, 1)
    IN IF start_date.raised \/ next_month.raised
       THEN FilterRaised
       ELSE LET end_date == next_month.value - SecondsPerDay + EndOfDay
                lower == IF start_date.value <= end_date THEN start_date.value ELSE end_date
                upper == IF start_date.value <= end_date THEN end_date ELSE start_date.value
            IN [raised |-> FALSE,
                start_date |-> start_date.value,
                end_date |-> end_date,
                df |-> RowsBetween(df, lower, upper)]

filter_by_date_range(df, start_year, start_month, end_year, end_month) ==
    LET start_date == Timestamp(start_year, start_month, 1)
        next_month == IF end_month = 12
                      THEN Timestamp(end_year + 1, 1, 1)
                      ELSE Timestamp(end_year, end_month + 1, 1)
    IN IF start_date.raised \/ next_month.raised
       THEN FilterRaised
       ELSE LET end_date == next_month.value - SecondsPerDay + EndOfDay
            IN [raised |-> FALSE,
                start_date |-> start_date.value,
                end_date |-> end_date,
                df |-> RowsBetween(df, start_date.value, end_date)]

(***************************************************************************)
(* data_loader.py: delivery speed and its bucket.                          *)
(***************************************************************************)
\* Timedelta.days: whole days, rounded toward minus infinity
TimedeltaDays(seconds) == seconds \div SecondsPerDay

\* df with the column col set, row by row, to cells[i]
WithColumn(df, col, cells) ==
    [i \in 1..Len(df) |->
        [c \in (DOMAIN df[i]) \cup {col} |-> IF c = col THEN cells[i] ELSE df[i][c]]]

\* (a variant that drops the partial day toward zero)
delivery_speed_truncated(sales_data) ==
    WithColumn(sales_data, "delivery_speed_days",
        [i \in 1..Len(sales_data) |->
            LET delivered == sales_data[i].order_delivered_customer_date
                purchased == sales_data[i].order_purchase_timestamp
                diff == Val(delivered) - Val(purchased)
            IN IF IsNull(delivered) \/ IsNull(purchased) THEN Null
               ELSE IF diff >= 0 THEN Some(diff \div SecondsPerDay)
                    ELSE Some(-((-diff) \div SecondsPerDay))])

\* the timestamps are datetimes already, so pd.to_datetime leaves them as they
\* are; a NaT on either side gives NaT - t = NaT, whose .dt.days is NaN
calculate_delivery_speed(sales_data) ==
    WithColumn(sales_data, "delivery_speed_days",
        [i \in 1..Len(sales_data) |->
            LET delivered == sales_data[i].order_delivered_customer_date
                purchased == sales_data[i].order_purchase_timestamp
            IN IF IsNull(delivered) \/ IsNull(purchased) THEN Null
               ELSE Some(TimedeltaDays(Val(delivered) - Val(purchased)))])

\* (a variant with strict comparisons)
categorize_with_strict_bounds(days) ==
    IF ~IsNull(days) /\ Val(days) < 3 THEN "1-3 days"
    ELSE IF ~IsNull(days) /\ Val(days) < 7 THEN "4-7 days"
    ELSE "8+ days"

\* days is a float cell; a comparison with NaN is False, so NaN falls through
\* both tests to the else branch
categorize_delivery_speed(days) ==
    IF ~IsNull(days) /\ Val(days) <= 3 THEN "1-3 days"
    ELSE IF ~IsNull(days) /\ Val(days) <= 7 THEN "4-7 days"
    ELSE "8+ days"

\* sales['delivery_category'] = sales['delivery_speed_days'].apply(
\*     categorize_delivery_speed): Series.apply calls the function on every
\* cell, NaN included
assign_delivery_category(sales_data) ==
    WithColumn(sales_data, "delivery_category",
        [i \in 1..Len(sales_data) |->
            Some(categorize_delivery_speed(sales_data[i].delivery_speed_days))])
\* the position of x in the sequence s
IndexOf(s, x) == CHOOSE i \in 1..Len(s) : s[i] = x

\* the labels categorize_delivery_speed returns, in the lexicographic order of
\* Python strings ('1' < '4' < '8'): the order groupby(sort=True) gives them
DeliveryLabels == <<"1-3 days", "4-7 days", "8+ days">>

\* the group keys of df.groupby(col) for a column of labels: the labels that
\* occur, in lexicographic order; null keys are dropped
GroupLabels(df, col) ==
    SelectSeq(DeliveryLabels, LAMBDA k : \E i \in 1..Len(df) : df[i][col] = Some(k))

category_order == <<"1-3 days", "4-7 days", "8+ days">>

\* the code of a label in pd.Categorical(..., categories=category_order)
CategoricalCode(label) == IndexOf(category_order, label)

\* result.sort_values('delivery_category') on the ordered Categorical:
\* ascending by code, equal codes keep their order
RECURSIVE InsertByCategory(_, _)
InsertByCategory(g, s) ==
    IF s = <<>> THEN <<g>>
    ELSE IF CategoricalCode(s[Len(s)].delivery_category)
                <= CategoricalCode(g.delivery_category)
         THEN s \o <<g>>
         ELSE InsertByCategory(g, [i \in 1..(Len(s) - 1) |-> s[i]]) \o <<s[Len(s)]>>

RECURSIVE SortByCategory(_)
SortByCategory(s) ==
    IF s = <<>> THEN <<>>
    ELSE InsertByCategory(s[Len(s)], SortByCategory([i \in 1..(Len(s) - 1) |-> s[i]]))

\* (a variant that lists the groups in the order of their first row)
RECURSIVE review_by_first_appearance(_)
review_by_first_appearance(sales_data) ==
    IF sales_data = <<>> THEN <<>>
    ELSE LET init == [i \in 1..(Len(sales_data) - 1) |-> sales_data[i]]
             last == sales_data[Len(sales_data)]
             rows == DropDuplicates(Project(sales_data,
                         {"order_id", "delivery_category", "review_score"}))
         IN IF \/ IsNull(last.delivery_category)
               \/ \E i \in 1..Len(init) : init[i].delivery_category = last.delivery_category
            THEN review_by_first_appearance(init)
            ELSE review_by_first_appearance(init) \o
                 <<[delivery_category |-> Val(last.delivery_category),
                    avg_review_score |->
                        SeriesMean(Column(GroupRows(rows, "delivery_category",
                                                    Val(last.delivery_category)),
                                          "review_score"))]>>

calculate_review_by_delivery_speed(sales_data) ==
    LET review_delivery ==
            DropDuplicates(Project(sales_data,
                {"order_id", "delivery_category", "review_score"}))
        keys == GroupLabels(review_delivery, "delivery_category")
        result_ ==
            [i \in 1..Len(keys) |->
                [delivery_category |-> keys[i],
                 avg_review_score |->
                    SeriesMean(Column(GroupRows(review_delivery, "delivery_category",
                                                keys[i]),
                                      "review_score"))]]
    IN SortByCategory(result_)
\* metric_name is accepted and never read
compare_periods(current_period_data, previous_period_data) ==
    LET current_revenue == Num(calculate_total_revenue(current_period_data))
        previous_revenue == Num(calculate_total_revenue(previous_period_data))
        growth_rate == calculate_revenue_growth(current_revenue, previous_revenue)
        absolute_change == FloatMinus(current_revenue, previous_revenue)
        current_aov == calculate_average_order_value(current_period_data)
        previous_aov == calculate_average_order_value(previous_period_data)
        aov_growth == calculate_revenue_growth(current_aov, previous_aov)
        current_orders == Num(calculate_total_orders(current_period_data))
        previous_orders == Num(calculate_total_orders(previous_period_data))
        orders_growth == calculate_revenue_growth(current_orders, previous_orders)
    IN [current_revenue |-> current_revenue,
        previous_revenue |-> previous_revenue,
        revenue_change |-> absolute_change,
        revenue_growth_rate |-> growth_rate,
        current_aov |-> current_aov,
        previous_aov |-> previous_aov,
        aov_growth_rate |-> aov_growth,
        current_orders |-> current_orders,
        previous_orders |-> previous_orders,
        orders_growth_rate |-> orders_growth]

(***************************************************************************)
(* data_loader.py: the build of the fact table.  The columns no build step *)
(* reads (price, freight_value, the two timestamps, year, month) ride      *)
(* along in every merge and are left out of the rows.                      *)
(***************************************************************************)
\* a row of the left table joined with a matching row of the right table
JoinedRow(row, other, right_cols) ==
    [c \in (DOMAIN row) \cup right_cols |-> IF c \in DOMAIN row THEN row[c] ELSE other[c]]

\* a row of the left table without match: the right table's columns are NaN
UnmatchedRow(row, right_cols) ==
    [c \in (DOMAIN row) \cup right_cols |-> IF c \in DOMAIN row THEN row[c] ELSE Null]

\* pd.merge(left, right, on=on, how=how) for how in {'inner', 'left'}: the
\* rows of left in their order, each once per matching row of right (in the
\* order of right); an unmatched row is kept by 'left' and dropped by 'inner'
RECURSIVE Merge(_, _, _, _, _)
Merge(left, right, on, right_cols, how) ==
    IF left = <<>> THEN <<>>
    ELSE LET row == left[1]
             matches == SelectSeq(right, LAMBDA r : r[on] = row[on])
             joined ==
                 IF matches # <<>>
                 THEN [i \in 1..Len(matches) |-> JoinedRow(row, matches[i], right_cols)]
                 ELSE IF how = "left" THEN <<UnmatchedRow(row, right_cols)>>
                 ELSE <<>>
         IN joined \o Merge(Tail(left), right, on, right_cols, how)

\* str.lower() on the order statuses
Lower(status) == IF status = Some("Delivered") THEN Some("delivered") ELSE status

\* (a variant whose status filter ignores the case)
create_sales_dataset_ignoring_case(order_items, orders, status_filter) ==
    LET sales_data == Merge(order_items, orders, "order_id",
                            {"order_id", "customer_id", "order_status"}, "inner")
    IN IF status_filter # ""
       THEN SelectSeq(sales_data,
                LAMBDA row : Lower(row.order_status) = Lower(Some(status_filter)))
       ELSE sales_data

create_sales_dataset(order_items, orders, status_filter) ==
    LET items_cols == {"order_id", "order_item_id", "product_id"}
        orders_cols == {"order_id", "customer_id", "order_status"}
        sales_data == Merge(Project(order_items, items_cols),
                            Project(orders, orders_cols),
                            "order_id", orders_cols, "inner")
    IN IF status_filter # ""
       THEN SelectSeq(sales_data, LAMBDA row : row.order_status = Some(status_filter))
       ELSE sales_data

\* (a variant that joins the products with an inner merge)
add_product_categories_inner(sales_data, products) ==
    Merge(sales_data, products, "product_id",
          {"product_id", "product_category_name"}, "inner")

add_product_categories(sales_data, products) ==
    LET product_cols == {"product_id", "product_category_name"}
        enriched_data == Merge(sales_data, Project(products, product_cols),
                               "product_id", product_cols, "left")
    IN enriched_data

\* an empty frame is taken to have the columns of create_sales_dataset's output
add_customer_geography(sales_data, orders, customers) ==
    LET sales_with_customer ==
            IF sales_data # <<>> /\ "customer_id" \notin DOMAIN sales_data[1]
            THEN Merge(sales_data, Project(orders, {"order_id", "customer_id"}),
                       "order_id", {"order_id", "customer_id"}, "left")
            ELSE sales_data
        customer_cols == {"customer_id", "customer_state", "customer_city"}
        enriched_data == Merge(sales_with_customer, Project(customers, customer_cols),
                               "customer_id", customer_cols, "left")
    IN enriched_data

\* (a variant that looks up the review of the first row only)
add_review_scores_to_first_row(sales_data, reviews) ==
    IF sales_data = <<>> THEN <<>>
    ELSE Merge(<<sales_data[1]>>, Project(reviews, {"order_id", "review_score"}),
               "order_id", {"order_id", "review_score"}, "left")
             \o [i \in 1..(Len(sales_data) - 1) |->
                    UnmatchedRow(sales_data[i + 1], {"order_id", "review_score"})]

add_review_scores(sales_data, reviews) ==
    LET review_cols == {"order_id", "review_score"}
        enriched_data == Merge(sales_data, Project(reviews, review_cols),
                               "order_id", review_cols, "left")
    IN enriched_data
(***************************************************************************)
(* run_analysis.py: the enrichment of one period's sales table.            *)
(***************************************************************************)
\* sales = dl.add_product_categories(sales, products) ... down to
\* sales['delivery_category'] = sales['delivery_speed_days'].apply(...)
enrich_sales(sales_data, orders, products, customers, reviews) ==
    LET with_categories == add_product_categories(sales_data, products)
        with_geography == add_customer_geography(with_categories, orders, customers)
        with_reviews == add_review_scores(with_geography, reviews)
        with_speed == calculate_delivery_speed(with_reviews)
    IN assign_delivery_category(with_speed)
(***************************************************************************)
(* The same functions as procedures on a heap of DataFrame objects: a      *)
(* table variable holds a reference (an index of the heap), df.copy(), a   *)
(* merge and a boolean selection create a new object, and df[col] = ...    *)
(* writes into the object that df refers to.  The contents are those of    *)
(* the functions above.                                                    *)
(***************************************************************************)
\* a new object holding frame; its reference is Len of the new heap
Allocate(heap, frame) == Append(heap, frame)

\* df[col] = series, on the object ref
SetFrame(heap, ref, frame) == [heap EXCEPT ![ref] = frame]

filter_by_date_range_call(heap, df, start_year, start_month, end_year, end_month) ==
    LET copied == Allocate(heap, heap[df])
        df_ == Len(copied)
        \* df[date_column] = pd.to_datetime(df[date_column])
        converted == SetFrame(copied, df_,
                         WithColumn(copied[df_], "order_purchase_timestamp",
                                    Column(copied[df_], "order_purchase_timestamp")))
        filtered == filter_by_date_range(converted[df_], start_year, start_month,
                                         end_year, end_month)
    IN IF filtered.raised
       THEN [raised |-> TRUE, heap |-> converted, ret |-> 0]
       ELSE [raised |-> FALSE,
             heap |-> Allocate(converted, filtered.df),
             ret |-> Len(converted) + 1]

add_product_categories_call(heap, sales_data, products) ==
    [heap |-> Allocate(heap, add_product_categories(heap[sales_data], heap[products])),
     ret |-> Len(heap) + 1]

\* sales_with_customer = sales_data.copy(), then the merge
add_customer_geography_call(heap, sales_data, orders, customers) ==
    LET copied == Allocate(heap, heap[sales_data])
    IN [heap |-> Allocate(copied,
                     add_customer_geography(copied[Len(copied)], orders, heap[customers])),
        ret |-> Len(copied) + 1]

add_review_scores_call(heap, sales_data, reviews) ==
    [heap |-> Allocate(heap, add_review_scores(heap[sales_data], heap[reviews])),
     ret |-> Len(heap) + 1]

\* (a variant that writes the new column into the caller's table)
calculate_delivery_speed_in_place(heap, sales_data) ==
    [heap |-> SetFrame(heap, sales_data, calculate_delivery_speed(heap[sales_data])),
     ret |-> sales_data]

\* sales_data = sales_data.copy(), then the three column assignments
calculate_delivery_speed_call(heap, sales_data) ==
    LET copied == Allocate(heap, heap[sales_data])
        sales_data_ == Len(copied)
    IN [heap |-> SetFrame(copied, sales_data_, calculate_delivery_speed(copied[sales_data_])),
        ret |-> sales_data_]

\* sales['delivery_category'] = ...: the script writes into its own table
assign_delivery_category_call(heap, sales_data) ==
    [heap |-> SetFrame(heap, sales_data, assign_delivery_category(heap[sales_data])),
     ret |-> sales_data]

calculate_revenue_by_period_call(heap, sales_data, period) ==
    LET revenue == calculate_revenue_by_period(heap[sales_data], period)
    IN IF revenue.raised
       THEN [raised |-> TRUE, heap |-> heap, ret |-> 0]
       ELSE [raised |-> FALSE, heap |-> Allocate(heap, revenue.revenue), ret |-> Len(heap) + 1]

\* result = revenue_by_month.copy(); result['mom_growth'] = ...
calculate_mom_growth_call(heap, revenue_by_month_) ==
    LET copied == Allocate(heap, heap[revenue_by_month_])
        result_ == Len(copied)
    IN [heap |-> SetFrame(copied, result_, calculate_mom_growth(copied[result_])),
        ret |-> result_]

(***************************************************************************)
(* The metrics engine applied to a fact table holding the columns          *)
(* order_id, price and product_category_name.  The table is built one      *)
(* line item at a time; a metric call leaves it as it is and records what  *)
(* it returned.                                                            *)
(***************************************************************************)
SalesRow(o, p, c) ==
    [order_id |-> Some(o), price |-> Some(p), product_category_name |-> c]

Init ==
    /\ sales = <<>>
    /\ revenue_by_month = <<>>
    /\ result = NoCall

AddRow ==
    /\ Len(sales) < MaxRows
    /\ \E o \in OrderIds, p \in Prices, c \in {Null} \cup {Some(k) : k \in Categories} :
          sales' = Append(sales, SalesRow(o, p, c))
    /\ result' = NoCall
    /\ UNCHANGED revenue_by_month

TotalRevenue ==
    /\ result' = [op |-> "total_revenue", val |-> calculate_total_revenue(sales)]
    /\ UNCHANGED <<sales, revenue_by_month>>

AverageOrderValue ==
    /\ result' = [op |-> "average_order_value",
                  val |-> calculate_average_order_value(sales)]
    /\ UNCHANGED <<sales, revenue_by_month>>

TotalOrders ==
    /\ result' = [op |-> "total_orders", val |-> calculate_total_orders(sales)]
    /\ UNCHANGED <<sales, revenue_by_month>>

RevenueByCategory ==
    /\ result' = [op |-> "revenue_by_category",
                  val |-> calculate_revenue_by_category(sales)]
    /\ UNCHANGED <<sales, revenue_by_month>>

ItemsPerOrder ==
    /\ result' = [op |-> "items_per_order", val |-> calculate_items_per_order(sales)]
    /\ UNCHANGED <<sales, revenue_by_month>>

Next ==
    \/ AddRow
    \/ TotalRevenue
    \/ AverageOrderValue
    \/ TotalOrders
    \/ RevenueByCategory
    \/ ItemsPerOrder

Spec == Init /\ [][Next]_vars

(***************************************************************************)
(* Reference quantities for the properties, computed over the set of row   *)
(* indices instead of along the sequence.                                  *)
(***************************************************************************)
RECURSIVE SumOver(_, _)
SumOver(f, S) ==
    IF S = {} THEN 0
    ELSE LET x == CHOOSE y \in S : TRUE
         IN f[x] + SumOver(f, S \ {x})

RowIndices == 1..Len(sales)
PriceOf == [i \in RowIndices |-> Val(sales[i].price)]
PriceTotal == SumOver(PriceOf, RowIndices)
DistinctOrders == {Val(sales[i].order_id) : i \in RowIndices}
RowsOfOrder(o) == {i \in RowIndices : sales[i].order_id = Some(o)}
OrderTotal == [o \in DistinctOrders |-> SumOver(PriceOf, RowsOfOrder(o))]

\* C1: calculate_total_revenue returns the sum of price over all rows of the
\* fact table, every line item counted once, and 0 for the empty table.
C1_TotalRevenueIsPriceSum ==
    result.op = "total_revenue" =>
        /\ result.val = PriceTotal
        /\ sales = <<>> => result.val = 0

C1_Witness ==
    /\ result.op = "total_revenue"
    /\ Len(sales) = 3
    /\ Cardinality(DistinctOrders) = 1
    /\ result.val = 8

\* C2: the output of calculate_revenue_by_category is ordered non-increasing by
\* revenue and its revenues add up to calculate_total_revenue of the table.
C2_CategoryRevenueSortedAndComplete ==
    result.op = "revenue_by_category" =>
        /\ \A i \in 1..(Len(result.val) - 1) :
              result.val[i].revenue >= result.val[i + 1].revenue
        /\ SumOver([i \in 1..Len(result.val) |-> result.val[i].revenue],
                   1..Len(result.val)) = calculate_total_revenue(sales)

\* C5: calculate_average_order_value is the mean over the distinct orders of
\* the per-order sum of price, which is total revenue / total orders; with no
\* order it is NaN, neither zero nor an error.
C5_AverageOrderValue ==
    result.op = "average_order_value" =>
        IF DistinctOrders = {}
        THEN result.val = NaN
        ELSE /\ IsNum(result.val)
             /\ result.val.num * Cardinality(DistinctOrders)
                    = SumOver(OrderTotal, DistinctOrders) * result.val.den
             /\ SameNumber(result.val,
                           FloatDiv(calculate_total_revenue(sales),
                                    calculate_total_orders(sales)))

C5_Witness ==
    /\ result.op = "average_order_value"
    /\ Len(sales) = 3
    /\ Cardinality(DistinctOrders) = 2
    /\ SameNumber(result.val, FloatDiv(7, 2))

\* C6: on a non-empty fact table calculate_total_orders is the number of
\* distinct order_id values, not the row count, and calculate_items_per_order
\* is the row count divided by that number.
C6_OrdersAndItemsPerOrder ==
    sales # <<>> =>
        /\ result.op = "total_orders" => result.val = Cardinality(DistinctOrders)
        /\ result.op = "items_per_order" =>
              /\ IsNum(result.val)
              /\ result.val.num * Cardinality(DistinctOrders)
                     = Len(sales) * result.val.den
              /\ SameNumber(result.val,
                            FloatDiv(Len(sales), calculate_total_orders(sales)))

C6_Witness ==
    /\ result.op = "items_per_order"
    /\ Len(sales) = 3
    /\ Cardinality(DistinctOrders) = 2
    /\ calculate_total_orders(sales) = 2
    /\ SameNumber(result.val, FloatDiv(3, 2))

(***************************************************************************)
(* The order-level metrics applied to a fact table holding the columns     *)
(* order_id and review_score.  review_score comes from the join with the   *)
(* reviews on order_id, so the line items of one order carry one score.    *)
(***************************************************************************)
ReviewRow(o, r) == [order_id |-> Some(o), review_score |-> r]

ReviewCells == {Null} \cup {Some(r) : r \in ReviewScores}

InitReview == Init

AddReviewRow ==
    /\ Len(sales) < MaxReviewRows
    /\ \E o \in OrderIds, r \in ReviewCells :
          /\ \A i \in 1..Len(sales) :
                sales[i].order_id = Some(o) => sales[i].review_score = r
          /\ sales' = Append(sales, ReviewRow(o, r))
    /\ result' = NoCall
    /\ UNCHANGED revenue_by_month

AverageReviewScore ==
    /\ result' = [op |-> "average_review_score",
                  val |-> calculate_average_review_score(sales)]
    /\ UNCHANGED <<sales, revenue_by_month>>

NextReview ==
    \/ AddReviewRow
    \/ AverageReviewScore

SpecReview == InitReview /\ [][NextReview]_vars

\* the first row of every order: the order-deduplicated projection
FirstRows == {i \in RowIndices : \A j \in 1..(i - 1) : sales[j].order_id # sales[i].order_id}
ScoredFirstRows == {i \in FirstRows : ~IsNull(sales[i].review_score)}
MeanScorePerOrder ==
    IF ScoredFirstRows = {} THEN NaN
    ELSE FloatDiv(SumOver([i \in ScoredFirstRows |-> Val(sales[i].review_score)],
                          ScoredFirstRows),
                  Cardinality(ScoredFirstRows))

\* C3: calculate_average_review_score is the mean of review_score over one row
\* per order_id (null scores left out), whatever the number of line items of
\* each order.
C3_ReviewScoreAveragedPerOrder ==
    result.op = "average_review_score" => SameNumber(result.val, MeanScorePerOrder)

(***************************************************************************)
(* calculate_revenue_growth applied to two amounts: totals, averages       *)
(* (fractions) or the NaN of an empty period.                              *)
(***************************************************************************)
Amounts ==
    {[kind |-> "num", num |-> n, den |-> d] : n \in (-MaxAmount)..MaxAmount, d \in {1, 2}}
        \cup {NaN}

InitGrowth == Init

RevenueGrowth ==
    /\ \E c \in Amounts, p \in Amounts :
          result' = [op |-> "revenue_growth",
                     current_revenue |-> c,
                     previous_revenue |-> p,
                     val |-> calculate_revenue_growth(c, p)]
    /\ UNCHANGED <<sales, revenue_by_month>>

NextGrowth == RevenueGrowth

SpecGrowth == InitGrowth /\ [][NextGrowth]_vars

\* C4: calculate_revenue_growth(curr, prev) is exactly 0.0 when prev == 0, for
\* any curr, negative ones included, and is never infinite; when prev != 0 it
\* is (curr - prev) / prev.
C4_GrowthZeroOnZeroBase ==
    result.op = "revenue_growth" =>
        LET c == result.current_revenue
            p == result.previous_revenue
            g == result.val
        IN /\ IsZero(p) => g = Num(0)
           /\ g.kind # "inf"
           /\ (~IsZero(p) /\ IsNum(p) /\ IsNum(c)) =>
                 /\ IsNum(g)
                 /\ g.num * p.num * c.den = (c.num * p.den - p.num * c.den) * g.den
           /\ (~IsNum(p) \/ (~IsNum(c) /\ ~IsZero(p))) => g = NaN

C4_Witness ==
    /\ result.op = "revenue_growth"
    /\ IsZero(result.previous_revenue)
    /\ IsNum(result.current_revenue)
    /\ result.current_revenue.num < 0
    /\ result.val = Num(0)

(***************************************************************************)
(* calculate_mom_growth applied to a revenue-by-month table: one row per   *)
(* (year, month), as calculate_revenue_by_period('year-month') returns     *)
(* them, in any row order.                                                 *)
(***************************************************************************)
MonthRow(y, m, r) == [year |-> y, month |-> m, revenue |-> Some(r)]

InitMoM == Init

AddMonthRow ==
    /\ Len(revenue_by_month) < MaxMonthRows
    /\ \E y \in Years, m \in MonthsOfYear, r \in 0..MaxRevenue :
          /\ \A i \in 1..Len(revenue_by_month) :
                ~(revenue_by_month[i].year = y /\ revenue_by_month[i].month = m)
          /\ revenue_by_month' = Append(revenue_by_month, MonthRow(y, m, r))
    /\ result' = NoCall
    /\ UNCHANGED sales

MoMGrowth ==
    /\ result' = [op |-> "mom_growth", val |-> calculate_mom_growth(revenue_by_month)]
    /\ UNCHANGED <<sales, revenue_by_month>>

NextMoM ==
    \/ AddMonthRow
    \/ MoMGrowth

SpecMoM == InitMoM /\ [][NextMoM]_vars

\* the position of a row in calendar order
PeriodKey(row) == row.year * 12 + row.month

IsChronological(t) == \A i \in 1..(Len(t) - 1) : PeriodKey(t[i]) < PeriodKey(t[i + 1])

\* the rows of t in calendar order
Chronological(t) ==
    LET keys == SortedSeq({PeriodKey(t[i]) : i \in 1..Len(t)})
    IN [k \in 1..Len(keys) |->
            t[CHOOSE i \in 1..Len(t) : PeriodKey(t[i]) = keys[k]]]

\* g is the percent change from revenue prev to revenue cur, a finite number
IsPercentChange(g, prev, cur) ==
    /\ IsNum(g)
    /\ g.num * prev = (cur - prev) * g.den

\* the rows of the output are the rows of the input, in the same order
SameMonths(out, t) ==
    /\ Len(out) = Len(t)
    /\ \A i \in 1..Len(t) :
          /\ out[i].year = t[i].year
          /\ out[i].month = t[i].month
          /\ out[i].revenue = t[i].revenue

C8_GrowthIndependentOfRowOrder ==
    result.op = "mom_growth" =>
        LET ordered == calculate_mom_growth(Chronological(revenue_by_month))
        IN \A i \in 1..Len(result.val), j \in 1..Len(ordered) :
              PeriodKey(result.val[i]) = PeriodKey(ordered[j]) =>
                  result.val[i].mom_growth = ordered[j].mom_growth

(***************************************************************************)
(* filter_by_date_range applied to a sales table whose purchase timestamps *)
(* (already datetimes, so pd.to_datetime leaves them as they are) lie on   *)
(* the first or the last second of a month, or are NaT.                    *)
(***************************************************************************)
\* the first second of a month and the last second of its last calendar day
FirstInstant(y, m) == Timestamp(y, m, 1).value
LastInstant(y, m) == Timestamp(y, m, DaysInMonth(y, m)).value + EndOfDay

PurchaseTimestamps ==
    {Null} \cup {Some(FirstInstant(y, m)) : y \in Years, m \in StampMonths}
           \cup {Some(LastInstant(y, m)) : y \in Years, m \in StampMonths}

InitFilter == Init

AddSalesRow ==
    /\ Len(sales) < MaxFilterRows
    /\ result.op = "none"
    /\ \E t \in PurchaseTimestamps :
          sales' = Append(sales, [order_item_id |-> Len(sales) + 1,
                                  order_purchase_timestamp |-> t])
    /\ UNCHANGED <<revenue_by_month, result>>

FilterByDateRange ==
    /\ result.op = "none"
    /\ \E sy \in Years, sm \in BoundMonths, ey \in Years, em \in BoundMonths :
          result' = [op |-> "filter_by_date_range",
                     start_year |-> sy, start_month |-> sm,
                     end_year |-> ey, end_month |-> em,
                     ret |-> filter_by_date_range(sales, sy, sm, ey, em)]
    /\ UNCHANGED <<sales, revenue_by_month>>

\* the same bounds applied to the table the first call returned
FilterAgain ==
    /\ result.op = "filter_by_date_range"
    /\ ~result.ret.raised
    /\ result' = [op |-> "filter_again",
                  start_year |-> result.start_year, start_month |-> result.start_month,
                  end_year |-> result.end_year, end_month |-> result.end_month,
                  first |-> result.ret,
                  ret |-> filter_by_date_range(result.ret.df,
                                               result.start_year, result.start_month,
                                               result.end_year, result.end_month)]
    /\ UNCHANGED <<sales, revenue_by_month>>

NextFilter ==
    \/ AddSalesRow
    \/ FilterByDateRange
    \/ FilterAgain

SpecFilter == InitFilter /\ [][NextFilter]_vars

ValidMonths == 1..12

\* row i of the sales table is one of the rows of df
Retained(i, df) == \E k \in 1..Len(df) : df[k] = sales[i]

\* C9: filter_by_date_range keeps a row exactly when start <= t <= end, with
\* start the first second of day 1 of start_month in start_year and end
\* 23:59:59 on the last calendar day of end_month in end_year; both bounds are
\* inclusive, and the kept rows are returned once each, in their order.
C9_FilterKeepsInclusiveMonthRange ==
    (/\ result.op = "filter_by_date_range"
     /\ result.start_month \in ValidMonths
     /\ result.end_month \in ValidMonths) =>
        LET start == FirstInstant(result.start_year, result.start_month)
            end == LastInstant(result.end_year, result.end_month)
            df == result.ret.df
        IN /\ ~result.ret.raised
           /\ result.ret.start_date = start
           /\ result.ret.end_date = end
           /\ \A i \in 1..Len(sales) :
                 Retained(i, df) <=>
                     /\ ~IsNull(sales[i].order_purchase_timestamp)
                     /\ start <= Val(sales[i].order_purchase_timestamp)
                     /\ Val(sales[i].order_purchase_timestamp) <= end
           /\ \A k \in 1..Len(df) : \E i \in 1..Len(sales) : sales[i] = df[k]
           /\ \A k \in 1..(Len(df) - 1) : df[k].order_item_id < df[k + 1].order_item_id

\* a range from leap-year February to November: the last second of 29 February
\* is kept, the first second of 1 December (one second past the end) is not
C9_Witness ==
    /\ result.op = "filter_by_date_range"
    /\ result.start_year = 2024 /\ result.start_month = 2
    /\ result.end_year = 2024 /\ result.end_month = 11
    /\ Len(sales) = 2
    /\ sales[1].order_purchase_timestamp = Some(Timestamp(2024, 2, 29).value + EndOfDay)
    /\ sales[2].order_purchase_timestamp = Some(Timestamp(2024, 12, 1).value)
    /\ result.ret.end_date = Timestamp(2024, 11, 30).value + EndOfDay
    /\ result.ret.df = <<sales[1]>>

\* C10: filtering the output of filter_by_date_range again with the same
\* bounds returns exactly the rows of that output.
C10_FilterIdempotent ==
    result.op = "filter_again" =>
        /\ ~result.ret.raised
        /\ result.ret.df = result.first.df

C10_Witness ==
    /\ result.op = "filter_again"
    /\ Len(sales) = 2
    /\ Len(result.first.df) = 1
    /\ result.ret.df = result.first.df

\* C24: with both months in 1..12 and the start month after the end month,
\* filter_by_date_range returns no row and does not raise.
C24_ReversedBoundsGiveEmptyTable ==
    (/\ result.op = "filter_by_date_range"
     /\ result.start_month \in ValidMonths
     /\ result.end_month \in ValidMonths
     /\ result.start_year * 12 + result.start_month
            > result.end_year * 12 + result.end_month) =>
        /\ ~result.ret.raised
        /\ result.ret.df = <<>>

\* December 2024 back to February 2023, with rows in between
C24_Witness ==
    /\ result.op = "filter_by_date_range"
    /\ result.start_year = 2024 /\ result.start_month = 12
    /\ result.end_year = 2023 /\ result.end_month = 2
    /\ Len(sales) = 2
    /\ sales[1].order_purchase_timestamp = Some(FirstInstant(2023, 12))
    /\ sales[2].order_purchase_timestamp = Some(LastInstant(2024, 2))
    /\ ~result.ret.raised
    /\ result.ret.df = <<>>

\* C25: filter_by_date_range raises when start_month or end_month is outside
\* 1..12 (0 and 13 included); it returns no table for such bounds.
C25_MalformedBoundsRaise ==
    (/\ result.op = "filter_by_date_range"
     /\ \/ result.start_month \notin ValidMonths
        \/ result.end_month \notin ValidMonths) =>
        result.ret.raised

\* what does hold: every malformed bound raises but end_month = 0, which is
\* read as December of the year before end_year
MalformedBoundsButEndMonthZeroRaise ==
    result.op = "filter_by_date_range" =>
        /\ result.ret.raised <=>
              \/ result.start_month \notin ValidMonths
              \/ result.end_month \notin (ValidMonths \cup {0})
        /\ (~result.ret.raised /\ result.end_month = 0) =>
              result.ret.end_date = LastInstant(result.end_year - 1, 12)

(***************************************************************************)
(* calculate_delivery_speed and categorize_delivery_speed applied to a     *)
(* sales table holding the two timestamps: the delivery happens a whole    *)
(* number of days after (or before) the purchase, or a second less or      *)
(* more, or not at all (NaT).                                              *)
(***************************************************************************)
\* delivered - purchase, in seconds
DeliveryDelays ==
    {d * SecondsPerDay : d \in {0, 3, 4, 7, 8}}
        \cup {d * SecondsPerDay + (SecondsPerDay - 1) : d \in {0, 3, 7}}
        \cup {-1, -SecondsPerDay, -SecondsPerDay - 1}

SpeedPurchases == {Timestamp(2023, 12, 31).value, Timestamp(2024, 2, 28).value + EndOfDay}

InitSpeed == Init

AddTimedRow ==
    /\ Len(sales) < MaxSpeedRows
    /\ result.op = "none"
    /\ \E p \in SpeedPurchases, d \in {Null} \cup {Some(x) : x \in DeliveryDelays} :
          sales' = Append(sales,
                      [order_item_id |-> Len(sales) + 1,
                       order_purchase_timestamp |-> Some(p),
                       order_delivered_customer_date |->
                           IF IsNull(d) THEN Null ELSE Some(p + Val(d))])
    /\ UNCHANGED <<revenue_by_month, result>>

\* sales = dl.calculate_delivery_speed(sales)
CalculateDeliverySpeed ==
    /\ result.op = "none"
    /\ sales' = calculate_delivery_speed(sales)
    /\ result' = [op |-> "calculate_delivery_speed", sales_data |-> sales]
    /\ UNCHANGED revenue_by_month

CategorizeDeliverySpeed ==
    /\ result.op \in {"calculate_delivery_speed", "categorize_delivery_speed"}
    /\ \E d \in (-MaxDays)..MaxDays :
          result' = [op |-> "categorize_delivery_speed",
                     days |-> d,
                     val |-> categorize_delivery_speed(Some(d))]
    /\ UNCHANGED <<sales, revenue_by_month>>

NextSpeed ==
    \/ AddTimedRow
    \/ CalculateDeliverySpeed
    \/ CategorizeDeliverySpeed

SpecSpeed == InitSpeed /\ [][NextSpeed]_vars

\* C17: categorize_delivery_speed(d) is "1-3 days" exactly when d <= 3,
\* "4-7 days" exactly when 3 < d <= 7 and "8+ days" exactly when d > 7, for
\* every integer d, zero and the negative ones included.
C17_BucketsPartitionAtThreeAndSeven ==
    result.op = "categorize_delivery_speed" =>
        /\ result.val = "1-3 days" <=> result.days <= 3
        /\ result.val = "4-7 days" <=> (3 < result.days /\ result.days <= 7)
        /\ result.val = "8+ days" <=> result.days > 7

C17_Witness ==
    /\ result.op = "categorize_delivery_speed"
    /\ result.days = 7
    /\ result.val = "4-7 days"

\* C20: for a row with both timestamps calculate_delivery_speed sets
\* delivery_speed_days to the whole days of delivered - purchase, rounded
\* toward minus infinity (also when the delivery precedes the purchase); for a
\* row without delivered timestamp it sets it to null.  The other columns and
\* the rows are kept.
C20_DeliverySpeedIsFlooredDays ==
    result.op = "calculate_delivery_speed" =>
        /\ Len(sales) = Len(result.sales_data)
        /\ \A i \in 1..Len(sales) :
              LET before == result.sales_data[i]
                  delivered == before.order_delivered_customer_date
                  purchased == before.order_purchase_timestamp
                  days == sales[i].delivery_speed_days
              IN /\ \A c \in DOMAIN before : sales[i][c] = before[c]
                 /\ IsNull(delivered) => IsNull(days)
                 /\ ~IsNull(delivered) =>
                       /\ ~IsNull(days)
                       /\ Val(days) * SecondsPerDay <= Val(delivered) - Val(purchased)
                       /\ Val(delivered) - Val(purchased) < (Val(days) + 1) * SecondsPerDay

\* a delivery one second before the purchase (-1 day) next to an undelivered row
C20_Witness ==
    /\ result.op = "calculate_delivery_speed"
    /\ Len(sales) = 2
    /\ ~IsNull(sales[1].order_delivered_customer_date)
    /\ Val(sales[1].order_delivered_customer_date)
           = Val(sales[1].order_purchase_timestamp) - 1
    /\ sales[1].delivery_speed_days = Some(-1)
    /\ IsNull(sales[2].order_delivered_customer_date)
    /\ IsNull(sales[2].delivery_speed_days)


(***************************************************************************)
(* The delivery buckets: a fact table that carries delivery_speed_days     *)
(* (null for an order that was never delivered) gets its delivery_category *)
(* column and is then handed to calculate_review_by_delivery_speed.        *)
(***************************************************************************)
DeliveryOrderIds == {1, 2, 3}
SpeedDays == {2, 5, 9}

InitDelivery == Init

\* one order has one delivery speed; its reviews may differ from row to row
AddDeliveredRow ==
    /\ Len(sales) < MaxDeliveryRows
    /\ result.op = "none"
    /\ \E o \in DeliveryOrderIds,
          d \in {Null} \cup {Some(x) : x \in SpeedDays},
          s \in {Null} \cup {Some(x) : x \in ReviewScores} :
          /\ \A i \in 1..Len(sales) :
                sales[i].order_id = Some(o) => sales[i].delivery_speed_days = d
          /\ sales' = Append(sales,
                         [order_id |-> Some(o),
                          delivery_speed_days |-> d,
                          review_score |-> s])
    /\ UNCHANGED <<revenue_by_month, result>>

\* sales['delivery_category'] = sales['delivery_speed_days'].apply(...)
AssignDeliveryCategory ==
    /\ result.op = "none"
    /\ sales' = assign_delivery_category(sales)
    /\ result' = [op |-> "assign_delivery_category"]
    /\ UNCHANGED revenue_by_month

ReviewByDeliverySpeed ==
    /\ result.op = "assign_delivery_category"
    /\ result' = [op |-> "calculate_review_by_delivery_speed",
                  val |-> calculate_review_by_delivery_speed(sales)]
    /\ UNCHANGED <<sales, revenue_by_month>>

NextDelivery ==
    \/ AddDeliveredRow
    \/ AssignDeliveryCategory
    \/ ReviewByDeliverySpeed

SpecDelivery == InitDelivery /\ [][NextDelivery]_vars

\* C11: the groups of calculate_review_by_delivery_speed come in the order
\* "1-3 days", "4-7 days", "8+ days", whatever the order of the input rows and
\* the sizes of the groups, and a category is listed exactly when some input
\* row carries it.
C11_GroupsInFixedOrder ==
    result.op = "calculate_review_by_delivery_speed" =>
        LET FixedOrder == <<"1-3 days", "4-7 days", "8+ days">>
            out == result.val
        IN /\ \A i, j \in 1..Len(out) :
                 i < j => \E a, b \in 1..3 :
                             /\ a < b
                             /\ out[i].delivery_category = FixedOrder[a]
                             /\ out[j].delivery_category = FixedOrder[b]
           /\ \A a \in 1..3 :
                 (\E i \in 1..Len(out) : out[i].delivery_category = FixedOrder[a])
                     <=> (\E r \in 1..Len(sales) :
                             sales[r].delivery_category = Some(FixedOrder[a]))

\* the slowest order first, the fastest last: three groups, fastest first
C11_Witness ==
    /\ result.op = "calculate_review_by_delivery_speed"
    /\ Len(sales) = 3
    /\ sales[1].delivery_category = Some("8+ days")
    /\ sales[2].delivery_category = Some("4-7 days")
    /\ sales[3].delivery_category = Some("1-3 days")
    /\ Len(result.val) = 3
    /\ result.val[1].delivery_category = "1-3 days"
    /\ result.val[3].delivery_category = "8+ days"

\* C16: a row whose delivery_speed_days is null has a null delivery_category
\* and is counted in no group of calculate_review_by_delivery_speed: every
\* group's average is the mean over the distinct (order, category, score)
\* rows that have a delivery speed.
C16_UndeliveredRowsInNoBucket ==
    result.op \in {"assign_delivery_category", "calculate_review_by_delivery_speed"} =>
        /\ \A r \in 1..Len(sales) :
              IsNull(sales[r].delivery_speed_days) => IsNull(sales[r].delivery_category)
        /\ result.op = "calculate_review_by_delivery_speed" =>
              LET delivered == SelectSeq(sales, LAMBDA row : ~IsNull(row.delivery_speed_days))
                  rows == DropDuplicates(Project(delivered,
                              {"order_id", "delivery_category", "review_score"}))
              IN /\ \A i \in 1..Len(result.val) :
                       /\ \E r \in 1..Len(rows) :
                             rows[r].delivery_category
                                 = Some(result.val[i].delivery_category)
                       /\ result.val[i].avg_review_score
                             = SeriesMean(Column(
                                   GroupRows(rows, "delivery_category",
                                             result.val[i].delivery_category),
                                   "review_score"))


(***************************************************************************)
(* compare_periods applied to the fact tables of two periods.              *)
(***************************************************************************)
PeriodRow(o, p) == [order_id |-> Some(o), price |-> Some(p)]

InitCompare ==
    /\ sales = [current |-> <<>>, previous |-> <<>>]
    /\ revenue_by_month = <<>>
    /\ result = NoCall

AddCurrentRow ==
    /\ Len(sales.current) < MaxCompareRows
    /\ \E o \in OrderIds, p \in Prices :
          sales' = [sales EXCEPT !.current = Append(@, PeriodRow(o, p))]
    /\ result' = NoCall
    /\ UNCHANGED revenue_by_month

AddPreviousRow ==
    /\ Len(sales.previous) < MaxCompareRows
    /\ \E o \in OrderIds, p \in Prices :
          sales' = [sales EXCEPT !.previous = Append(@, PeriodRow(o, p))]
    /\ result' = NoCall
    /\ UNCHANGED revenue_by_month

ComparePeriods ==
    /\ result' = [op |-> "compare_periods",
                  val |-> compare_periods(sales.current, sales.previous)]
    /\ UNCHANGED <<sales, revenue_by_month>>

NextCompare ==
    \/ AddCurrentRow
    \/ AddPreviousRow
    \/ ComparePeriods

SpecCompare == InitCompare /\ [][NextCompare]_vars

\* the value of a metric on a fact table, as a float
PricesOf(df) == SumOver([i \in 1..Len(df) |-> Val(df[i].price)], 1..Len(df))
OrdersOf(df) == {Val(df[i].order_id) : i \in 1..Len(df)}
MetricValue(metric, df) ==
    IF metric = "revenue" THEN Num(PricesOf(df))
    ELSE IF metric = "orders" THEN Num(Cardinality(OrdersOf(df)))
    ELSE IF df = <<>> THEN NaN
    ELSE FloatDiv(PricesOf(df), Cardinality(OrdersOf(df)))

\* the entries compare_periods has to return for one metric, by key
MetricEntries(metric) ==
    [which \in {"current", "previous", "change", "growth_rate"} |->
        IF which = "current" THEN
            IF metric = "revenue" THEN "current_revenue"
            ELSE IF metric = "aov" THEN "current_aov" ELSE "current_orders"
        ELSE IF which = "previous" THEN
            IF metric = "revenue" THEN "previous_revenue"
            ELSE IF metric = "aov" THEN "previous_aov" ELSE "previous_orders"
        ELSE IF which = "change" THEN
            IF metric = "revenue" THEN "revenue_change"
            ELSE IF metric = "aov" THEN "aov_change" ELSE "orders_change"
        ELSE IF metric = "revenue" THEN "revenue_growth_rate"
             ELSE IF metric = "aov" THEN "aov_growth_rate" ELSE "orders_growth_rate"]

\* C12: for revenue, average order value and order count alike compare_periods
\* returns the current value, the previous value, their difference and the
\* growth rate calculate_revenue_growth(current, previous).
C12_FourValuesPerMetric ==
    result.op = "compare_periods" =>
        \A metric \in {"revenue", "aov", "orders"} :
            LET key == MetricEntries(metric)
                cur == MetricValue(metric, sales.current)
                prev == MetricValue(metric, sales.previous)
            IN /\ {key[w] : w \in DOMAIN key} \subseteq DOMAIN result.val
               /\ SameNumber(result.val[key["current"]], cur)
               /\ SameNumber(result.val[key["previous"]], prev)
               /\ SameNumber(result.val[key["change"]], FloatMinus(cur, prev))
               /\ SameNumber(result.val[key["growth_rate"]],
                             calculate_revenue_growth(cur, prev))

\* what the returned dictionary does hold: ten entries, the difference for
\* revenue only
CompareReturnsTenEntries ==
    result.op = "compare_periods" =>
        /\ DOMAIN result.val =
              {"current_revenue", "previous_revenue", "revenue_change",
               "revenue_growth_rate", "current_aov", "previous_aov",
               "aov_growth_rate", "current_orders", "previous_orders",
               "orders_growth_rate"}
        /\ \A metric \in {"revenue", "aov", "orders"} :
              LET key == MetricEntries(metric)
                  cur == MetricValue(metric, sales.current)
                  prev == MetricValue(metric, sales.previous)
              IN /\ SameNumber(result.val[key["current"]], cur)
                 /\ SameNumber(result.val[key["previous"]], prev)
                 /\ SameNumber(result.val[key["growth_rate"]],
                               calculate_revenue_growth(cur, prev))
        /\ SameNumber(result.val.revenue_change,
                      FloatMinus(MetricValue("revenue", sales.current),
                                 MetricValue("revenue", sales.previous)))


(***************************************************************************)
(* The build of the fact table: the order items are joined with an orders  *)
(* table, then enriched with a products, a customers and a reviews table,  *)
(* in the order of run_analysis.py.  The tables handed to each step are    *)
(* any selection of the candidate rows below, duplicate join keys included.*)
(***************************************************************************)
ProductIds == {1, 2}
StatusFilters == {"", "delivered"}

OrderRows ==
    <<[order_id |-> Some(1), customer_id |-> Some(1), order_status |-> Some("delivered")],
      [order_id |-> Some(1), customer_id |-> Some(1), order_status |-> Some("Delivered")],
      [order_id |-> Some(2), customer_id |-> Some(2), order_status |-> Some("delivered")],
      [order_id |-> Some(2), customer_id |-> Some(2), order_status |-> Some("shipped")]>>

ProductRows ==
    <<[product_id |-> Some(1), product_category_name |-> Some(1)],
      [product_id |-> Some(1), product_category_name |-> Some(2)],
      [product_id |-> Some(2), product_category_name |-> Some(1)]>>

CustomerRows ==
    <<[customer_id |-> Some(1), customer_state |-> Some("SP"),
       customer_city |-> Some("sao paulo")],
      [customer_id |-> Some(1), customer_state |-> Some("RJ"),
       customer_city |-> Some("rio de janeiro")]>>

ReviewRows ==
    <<[order_id |-> Some(1), review_score |-> Some(5)],
      [order_id |-> Some(1), review_score |-> Some(2)],
      [order_id |-> Some(2), review_score |-> Some(5)]>>

\* the table holding the candidate rows with the indices in S, in their order
TableOf(rows, S) ==
    LET idx == SortedSeq(S) IN [i \in 1..Len(idx) |-> rows[idx[i]]]

Tables(rows) == {TableOf(rows, S) : S \in SUBSET (1..Len(rows))}

\* no two rows of the table share the join key
UniqueOn(table, on) ==
    \A i, j \in 1..Len(table) : table[i][on] = table[j][on] => i = j

\* the number of (line item, order) pairs with the same order_id
InnerJoinRows(order_items, orders) ==
    Cardinality({p \in (1..Len(order_items)) \X (1..Len(orders)) :
                    order_items[p[1]].order_id = orders[p[2]].order_id})

InitBuild == Init

AddItem ==
    /\ Len(sales) < MaxItemRows
    /\ result.op = "none"
    /\ \E o \in OrderIds, p \in ProductIds :
          sales' = Append(sales,
                      [order_id |-> Some(o),
                       order_item_id |-> Some(Len(sales) + 1),
                       product_id |-> Some(p)])
    /\ UNCHANGED <<revenue_by_month, result>>

CreateSalesDataset ==
    /\ result.op = "none"
    /\ \E orders \in Tables(OrderRows), status_filter \in StatusFilters :
          /\ sales' = create_sales_dataset(sales, orders, status_filter)
          /\ result' = [op |-> "create_sales_dataset",
                        sales_data |-> sales,
                        lookup |-> orders,
                        status_filter |-> status_filter,
                        orders |-> orders,
                        inner_join_rows |-> InnerJoinRows(sales, orders),
                        unique_keys |-> TRUE]
    /\ UNCHANGED revenue_by_month

AddProductCategories ==
    /\ result.op = "create_sales_dataset"
    /\ \E products \in Tables(ProductRows) :
          /\ sales' = add_product_categories(sales, products)
          /\ result' = [op |-> "add_product_categories",
                        sales_data |-> sales,
                        lookup |-> products,
                        orders |-> result.orders,
                        inner_join_rows |-> result.inner_join_rows,
                        unique_keys |-> result.unique_keys
                                            /\ UniqueOn(products, "product_id")]
    /\ UNCHANGED revenue_by_month

AddCustomerGeography ==
    /\ result.op = "add_product_categories"
    /\ \E customers \in Tables(CustomerRows) :
          /\ sales' = add_customer_geography(sales, result.orders, customers)
          /\ result' = [op |-> "add_customer_geography",
                        sales_data |-> sales,
                        lookup |-> customers,
                        orders |-> result.orders,
                        inner_join_rows |-> result.inner_join_rows,
                        unique_keys |-> result.unique_keys
                                            /\ UniqueOn(customers, "customer_id")]
    /\ UNCHANGED revenue_by_month

AddReviewScores ==
    /\ result.op = "add_customer_geography"
    /\ \E reviews \in Tables(ReviewRows) :
          /\ sales' = add_review_scores(sales, reviews)
          /\ result' = [op |-> "add_review_scores",
                        sales_data |-> sales,
                        lookup |-> reviews,
                        orders |-> result.orders,
                        inner_join_rows |-> result.inner_join_rows,
                        unique_keys |-> result.unique_keys
                                            /\ UniqueOn(reviews, "order_id")]
    /\ UNCHANGED revenue_by_month

NextBuild ==
    \/ AddItem
    \/ CreateSalesDataset
    \/ AddProductCategories
    \/ AddCustomerGeography
    \/ AddReviewScores

SpecBuild == InitBuild /\ [][NextBuild]_vars


\* C13: a line item is in the output of create_sales_dataset exactly when its
\* order_id matches an order whose order_status equals status_filter exactly
\* (case-sensitively), any order when status_filter is empty; unmatched line
\* items are dropped, and every output row is a line item with the columns of
\* one of its orders.
C13_InnerJoinAndExactStatus ==
    result.op = "create_sales_dataset" =>
        LET order_items == result.sales_data
            orders == result.lookup
            Kept(i, j) ==
                /\ order_items[i].order_id = orders[j].order_id
                /\ \/ result.status_filter = ""
                   \/ orders[j].order_status = Some(result.status_filter)
        IN /\ \A i \in 1..Len(order_items) :
                 (\E r \in 1..Len(sales) :
                     sales[r].order_item_id = order_items[i].order_item_id)
                     <=> (\E j \in 1..Len(orders) : Kept(i, j))
           /\ \A r \in 1..Len(sales) :
                 \E i \in 1..Len(order_items), j \in 1..Len(orders) :
                     /\ Kept(i, j)
                     /\ sales[r] = JoinedRow(order_items[i], orders[j],
                                             {"customer_id", "order_status"})

\* a line item without order, one whose order is "Delivered" and one that is
\* kept by the filter "delivered"
C13_Witness ==
    /\ result.op = "create_sales_dataset"
    /\ result.status_filter = "delivered"
    /\ Len(result.sales_data) = 2
    /\ Len(sales) = 1
    /\ \E i \in 1..2 :
          /\ \A j \in 1..Len(result.lookup) :
                result.lookup[j].order_id = result.sales_data[i].order_id
                    => result.lookup[j].order_status = Some("Delivered")
          /\ \E j \in 1..Len(result.lookup) :
                result.lookup[j].order_id = result.sales_data[i].order_id

\* the join key and the added columns of an enrichment step
EnrichmentKey(op) ==
    IF op = "add_product_categories" THEN "product_id"
    ELSE IF op = "add_customer_geography" THEN "customer_id"
    ELSE "order_id"

EnrichmentColumns(op) ==
    IF op = "add_product_categories" THEN {"product_category_name"}
    ELSE IF op = "add_customer_geography" THEN {"customer_state", "customer_city"}
    ELSE {"review_score"}

EnrichmentOps == {"add_product_categories", "add_customer_geography", "add_review_scores"}

\* C19: add_product_categories, add_customer_geography and add_review_scores
\* keep every input row with its fields unchanged; a row whose key matches no
\* row of the joined table is kept once, with null in the added columns.
C19_LeftEnrichmentKeepsRows ==
    result.op \in EnrichmentOps =>
        LET before == result.sales_data
            on == EnrichmentKey(result.op)
            added == EnrichmentColumns(result.op)
            Copies(i) == {r \in 1..Len(sales) :
                             \A c \in DOMAIN before[i] : sales[r][c] = before[i][c]}
            Matched(i) == \E j \in 1..Len(result.lookup) :
                             result.lookup[j][on] = before[i][on]
        IN /\ Len(sales) >= Len(before)
           /\ \A i \in 1..Len(before) :
                 /\ Copies(i) # {}
                 /\ ~Matched(i) =>
                       /\ Cardinality(Copies(i)) = 1
                       /\ \A r \in Copies(i), c \in added : IsNull(sales[r][c])

\* a full build in which a product, a customer and a review are missing
C19_Witness ==
    /\ result.op = "add_review_scores"
    /\ Len(sales) = 2
    /\ IsNull(sales[1].product_category_name) /\ ~IsNull(sales[2].product_category_name)
    /\ IsNull(sales[2].customer_state) /\ IsNull(sales[2].customer_city)
    /\ ~IsNull(sales[1].customer_state)
    /\ IsNull(sales[1].review_score) /\ ~IsNull(sales[2].review_score)

\* C18: after create_sales_dataset, add_product_categories,
\* add_customer_geography and add_review_scores the fact table has at most as
\* many rows as the inner join of the order items with the orders, whatever
\* the products, customers and reviews tables.
C18_BuildNeverExceedsInnerJoin ==
    result.op = "add_review_scores" => Len(sales) <= result.inner_join_rows

\* the bound does hold for products, customers and reviews tables that hold
\* each join key at most once
BuildWithUniqueKeysWithinInnerJoin ==
    (result.op = "add_review_scores" /\ result.unique_keys)
        => Len(sales) <= result.inner_join_rows


(***************************************************************************)
(* calculate_revenue_by_period applied to a fact table holding the year    *)
(* and the month of the purchase, with every period argument a caller can  *)
(* pass.                                                                   *)
(***************************************************************************)
Periods == {"year", "month", "year-month", "Year", "quarter", ""}

PeriodPrices == {1, 2}

InitPeriod == Init

AddPeriodRow ==
    /\ Len(sales) < MaxPeriodRows
    /\ \E y \in Years, m \in StampMonths, p \in PeriodPrices :
          sales' = Append(sales, [year |-> Some(y), month |-> Some(m), price |-> Some(p)])
    /\ result' = NoCall
    /\ UNCHANGED revenue_by_month

RevenueByPeriod ==
    /\ \E period \in Periods :
          result' = [op |-> "calculate_revenue_by_period",
                     period |-> period,
                     ret |-> calculate_revenue_by_period(sales, period)]
    /\ UNCHANGED <<sales, revenue_by_month>>

NextPeriod ==
    \/ AddPeriodRow
    \/ RevenueByPeriod

SpecPeriod == InitPeriod /\ [][NextPeriod]_vars

\* the rows of sales whose year (y # 0) and month (m # 0) are the given ones
RowsOfPeriod(y, m) ==
    {i \in 1..Len(sales) : /\ y # 0 => sales[i].year = Some(y)
                           /\ m # 0 => sales[i].month = Some(m)}

PeriodRevenue(y, m) == SumOver([i \in 1..Len(sales) |-> Val(sales[i].price)], RowsOfPeriod(y, m))

\* the year and month of an output row, 0 for a column the row does not have
YearOf(row) == IF "year" \in DOMAIN row THEN row.year ELSE 0
MonthOf(row) == IF "month" \in DOMAIN row THEN row.month ELSE 0

\* C14: for period 'year', 'month' and 'year-month' calculate_revenue_by_period
\* returns one row per year, per month and per (year, month) of the table, with
\* the sum of price of the rows of that period; for every other period it
\* raises and returns nothing.
C14_RevenueByPeriodOrRaise ==
    result.op = "calculate_revenue_by_period" =>
        LET out == result.ret.revenue
            columns == IF result.period = "year" THEN {"year", "revenue"}
                       ELSE IF result.period = "month" THEN {"month", "revenue"}
                       ELSE {"year", "month", "revenue"}
        IN IF result.period \in {"year", "month", "year-month"}
           THEN /\ ~result.ret.raised
                /\ \A k \in 1..Len(out) :
                      /\ DOMAIN out[k] = columns
                      /\ RowsOfPeriod(YearOf(out[k]), MonthOf(out[k])) # {}
                      /\ out[k].revenue
                            = Some(PeriodRevenue(YearOf(out[k]), MonthOf(out[k])))
                      /\ \A j \in 1..Len(out) :
                            (YearOf(out[j]) = YearOf(out[k])
                                /\ MonthOf(out[j]) = MonthOf(out[k])) => j = k
                /\ \A i \in 1..Len(sales) :
                      \E k \in 1..Len(out) :
                          /\ "year" \in columns => Some(out[k].year) = sales[i].year
                          /\ "month" \in columns => Some(out[k].month) = sales[i].month
           ELSE /\ result.ret.raised
                /\ result.ret.revenue = <<>>

\* the same month of two years: one group by month, two by (year, month)
C14_GroupedWitness ==
    /\ result.op = "calculate_revenue_by_period"
    /\ result.period = "year-month"
    /\ Len(sales) = 3
    /\ sales[1].month = sales[2].month
    /\ sales[1].year = sales[3].year
    /\ sales[1].year # sales[2].year
    /\ sales[1].month # sales[3].month
    /\ Len(result.ret.revenue) = 3

\* a period outside the three on a table with rows
C14_Witness ==
    /\ result.op = "calculate_revenue_by_period"
    /\ result.period = "quarter"
    /\ sales # <<>>
    /\ result.ret.raised


(***************************************************************************)
(* generate_summary_statistics applied to a fact table that may or may not *)
(* have been enriched with review scores and delivery speed.               *)
(***************************************************************************)
BaseColumns == {"order_id", "price"}
OptionalColumns == {"review_score", "delivery_speed_days"}
SummaryPrices == {1, 2}
SummaryDays == {2, 9}

InitSummary ==
    /\ \E optional \in SUBSET OptionalColumns :
          sales = [columns |-> BaseColumns \cup optional, rows |-> <<>>]
    /\ revenue_by_month = <<>>
    /\ result = NoCall

\* a cell of the column col
SummaryCells(col) ==
    IF col = "order_id" THEN {Some(o) : o \in OrderIds}
    ELSE IF col = "price" THEN {Some(p) : p \in SummaryPrices}
    ELSE IF col = "review_score" THEN {Null} \cup {Some(s) : s \in ReviewScores}
    ELSE {Null} \cup {Some(d) : d \in SummaryDays}

AddSummaryRow ==
    /\ Len(sales.rows) < MaxSummaryRows
    /\ \E row \in [sales.columns -> UNION {SummaryCells(c) : c \in sales.columns}] :
          /\ \A c \in sales.columns : row[c] \in SummaryCells(c)
          /\ sales' = [sales EXCEPT !.rows = Append(@, row)]
    /\ result' = NoCall
    /\ UNCHANGED revenue_by_month

SummaryStatistics ==
    /\ result' = [op |-> "generate_summary_statistics",
                  ret |-> generate_summary_statistics(sales, <<>>)]
    /\ UNCHANGED <<sales, revenue_by_month>>

NextSummary ==
    \/ AddSummaryRow
    \/ SummaryStatistics

SpecSummary == InitSummary /\ [][NextSummary]_vars

\* C15: generate_summary_statistics never raises on a table without the
\* review_score or the delivery_speed_days column; it returns total revenue,
\* order count, average order value and items per order always,
\* average_review_score exactly when the table has a review_score column and
\* average_delivery_days exactly when it has a delivery_speed_days column.
C15_OptionalSummaryFields ==
    result.op = "generate_summary_statistics" =>
        LET summary == result.ret.summary
            rows == sales.rows
            orders == Cardinality(OrdersOf(rows))
        IN /\ ~result.ret.raised
           /\ DOMAIN summary =
                 {"total_revenue", "total_orders", "average_order_value",
                  "average_items_per_order"}
                   \cup (IF "review_score" \in sales.columns
                         THEN {"average_review_score"} ELSE {})
                   \cup (IF "delivery_speed_days" \in sales.columns
                         THEN {"average_delivery_days"} ELSE {})
           /\ summary.total_revenue = PricesOf(rows)
           /\ summary.total_orders = orders
           /\ SameNumber(summary.average_order_value,
                         IF rows = <<>> THEN NaN ELSE FloatDiv(PricesOf(rows), orders))
           /\ SameNumber(summary.average_items_per_order,
                         IF rows = <<>> THEN NaN ELSE FloatDiv(Len(rows), orders))
           /\ "review_score" \in sales.columns =>
                 summary.average_review_score = calculate_average_review_score(rows)
           /\ "delivery_speed_days" \in sales.columns =>
                 summary.average_delivery_days = calculate_average_delivery_time(rows)

\* a table with delivery speed and without review scores
C15_Witness ==
    /\ result.op = "generate_summary_statistics"
    /\ sales.columns = BaseColumns \cup {"delivery_speed_days"}
    /\ Len(sales.rows) = 2
    /\ ~result.ret.raised
    /\ "average_delivery_days" \in DOMAIN result.ret.summary
    /\ "average_review_score" \notin DOMAIN result.ret.summary
    /\ result.ret.summary.average_delivery_days.kind = "num"


(***************************************************************************)
(* The two breakdowns of revenue applied to an enriched fact table: the    *)
(* category of a row is null when its product is unknown, the state when   *)
(* its customer is unknown.                                                *)
(***************************************************************************)
\* customer_state values, numbered in lexicographic order
CustomerStates == {1, 2}
BreakdownPrices == {1, 2}

InitBreakdown == Init

AddEnrichedRow ==
    /\ Len(sales) < MaxBreakdownRows
    /\ \E p \in BreakdownPrices,
          c \in {Null} \cup {Some(k) : k \in Categories},
          s \in {Null} \cup {Some(k) : k \in CustomerStates} :
          sales' = Append(sales,
                      [price |-> Some(p), product_category_name |-> c, customer_state |-> s])
    /\ result' = NoCall
    /\ UNCHANGED revenue_by_month

RevenueByState ==
    /\ result' = [op |-> "revenue_by_state", val |-> calculate_revenue_by_state(sales)]
    /\ UNCHANGED <<sales, revenue_by_month>>

NextBreakdown ==
    \/ AddEnrichedRow
    \/ RevenueByCategory
    \/ RevenueByState

SpecBreakdown == InitBreakdown /\ [][NextBreakdown]_vars

\* the rows of sales whose cell in column col is cell
RowsWithCell(col, cell) == {i \in 1..Len(sales) : sales[i][col] = cell}

\* C21: in the output of calculate_revenue_by_category and of
\* calculate_revenue_by_state the rows with a null category (state) form a
\* group of their own, with the sum of their prices as revenue.
C21_NullKeyFormsOwnGroup ==
    /\ result.op = "revenue_by_category" =>
          (RowsWithCell("product_category_name", Null) # {} =>
              \E k \in 1..Len(result.val) :
                  /\ IsNull(result.val[k].category)
                  /\ result.val[k].revenue
                        = SumOver([i \in 1..Len(sales) |-> Val(sales[i].price)],
                                  RowsWithCell("product_category_name", Null)))
    /\ result.op = "revenue_by_state" =>
          (RowsWithCell("customer_state", Null) # {} =>
              \E k \in 1..Len(result.val) :
                  /\ IsNull(result.val[k].state)
                  /\ result.val[k].revenue
                        = SumOver([i \in 1..Len(sales) |-> Val(sales[i].price)],
                                  RowsWithCell("customer_state", Null)))

\* what the two breakdowns do return: one group per category (state) that is
\* present, with the sum of its prices, and no group for the null key
BreakdownOverPresentKeys ==
    result.op \in {"revenue_by_category", "revenue_by_state"} =>
        LET col == IF result.op = "revenue_by_category"
                   THEN "product_category_name" ELSE "customer_state"
            KeyOf(row) == IF result.op = "revenue_by_category"
                          THEN row.category ELSE row.state
            present == {sales[i][col] : i \in 1..Len(sales)} \ {Null}
        IN /\ {KeyOf(result.val[k]) : k \in 1..Len(result.val)} = present
           /\ Len(result.val) = Cardinality(present)
           /\ \A k \in 1..Len(result.val) :
                 result.val[k].revenue
                     = SumOver([i \in 1..Len(sales) |-> Val(sales[i].price)],
                               RowsWithCell(col, KeyOf(result.val[k])))


(***************************************************************************)
(* The order-level metrics applied to an enriched fact table: an order has *)
(* one delivery speed (it comes from the order's own timestamps) and one   *)
(* row per line item and per review that add_review_scores joined to it.   *)
(***************************************************************************)
InitOrderLevel == Init

AddOrderRow ==
    /\ Len(sales) < MaxOrderRows
    /\ \E o \in OrderIds,
          r \in ReviewCells,
          d \in {Null} \cup {Some(x) : x \in SummaryDays} :
          /\ \A i \in 1..Len(sales) :
                sales[i].order_id = Some(o) => sales[i].delivery_speed_days = d
          /\ sales' = Append(sales,
                         [order_id |-> Some(o),
                          review_score |-> r,
                          delivery_speed_days |-> d])
    /\ result' = NoCall
    /\ UNCHANGED revenue_by_month

ReviewScoreDistribution ==
    /\ result' = [op |-> "review_score_distribution",
                  val |-> calculate_review_score_distribution(sales)]
    /\ UNCHANGED <<sales, revenue_by_month>>

AverageDeliveryTime ==
    /\ result' = [op |-> "average_delivery_time",
                  val |-> calculate_average_delivery_time(sales)]
    /\ UNCHANGED <<sales, revenue_by_month>>

NextOrderLevel ==
    \/ AddOrderRow
    \/ ReviewScoreDistribution
    \/ AverageDeliveryTime

SpecOrderLevel == InitOrderLevel /\ [][NextOrderLevel]_vars

\* the orders that have a row with review score s, and those with any score
OrdersScored(s) ==
    {sales[i].order_id : i \in {j \in 1..Len(sales) : sales[j].review_score = Some(s)}}

CountedOrders ==
    {sales[i].order_id : i \in {j \in 1..Len(sales) : ~IsNull(sales[j].review_score)}}

\* the sum of a sequence of floats that are finite numbers, as a float
RECURSIVE FloatSum(_)
FloatSum(s) ==
    IF s = <<>> THEN Num(0)
    ELSE LET rest == FloatSum(Tail(s))
         IN [kind |-> "num",
             num |-> s[1].num * rest.den + rest.num * s[1].den,
             den |-> s[1].den * rest.den]

\* C22: calculate_review_score_distribution counts every order once, whatever
\* its number of rows: the count of score s is the number of distinct orders
\* with score s, the counts add up to the number of orders that have a score,
\* each percentage is 100 * count / (number of those orders), and the
\* percentages of a table with a scored order add up to 100.
C22_DistributionCountsOrdersOnce ==
    result.op = "review_score_distribution" =>
        LET out == result.val
            counted == Cardinality(CountedOrders)
        IN /\ \A s \in ReviewScores :
                 \/ OrdersScored(s) = {} /\ \A k \in 1..Len(out) : out[k].review_score # s
                 \/ \E k \in 1..Len(out) :
                       /\ out[k].review_score = s
                       /\ out[k].count = Cardinality(OrdersScored(s))
           /\ SumOver([k \in 1..Len(out) |-> out[k].count], 1..Len(out)) = counted
           /\ \A k \in 1..Len(out) :
                 SameNumber(out[k].percentage, FloatDiv(100 * out[k].count, counted))
           /\ counted > 0 =>
                 SameNumber(FloatSum([k \in 1..Len(out) |-> out[k].percentage]), Num(100))

\* what does hold: every distinct (order, score) pair is counted once, and
\* the percentages are taken over the number of those pairs
DistributionCountsOrderScorePairs ==
    result.op = "review_score_distribution" =>
        LET out == result.val
            pairs == Cardinality({<<sales[i].order_id, sales[i].review_score>> :
                         i \in {j \in 1..Len(sales) : ~IsNull(sales[j].review_score)}})
        IN /\ \A k \in 1..Len(out) :
                 /\ out[k].count = Cardinality(OrdersScored(out[k].review_score))
                 /\ out[k].count > 0
                 /\ SameNumber(out[k].percentage, FloatDiv(100 * out[k].count, pairs))
           /\ \A j, k \in 1..Len(out) : j < k => out[j].review_score < out[k].review_score
           /\ SumOver([k \in 1..Len(out) |-> out[k].count], 1..Len(out)) = pairs
           /\ pairs > 0 =>
                 SameNumber(FloatSum([k \in 1..Len(out) |-> out[k].percentage]), Num(100))

\* the first row of every order that has a delivery speed
DeliveredFirstRows ==
    {i \in 1..Len(sales) :
        /\ ~IsNull(sales[i].delivery_speed_days)
        /\ \A j \in 1..(i - 1) : sales[j].order_id # sales[i].order_id}

\* C23: calculate_average_delivery_time is the mean of delivery_speed_days over
\* one row per order, the orders without delivery speed left out of the sum
\* and of the count; the number of rows of an order does not weight it.
C23_DeliveryTimeAveragedPerOrder ==
    result.op = "average_delivery_time" =>
        IF DeliveredFirstRows = {}
        THEN result.val = NaN
        ELSE SameNumber(result.val,
                 FloatDiv(SumOver([i \in 1..Len(sales) |->
                                      IF IsNull(sales[i].delivery_speed_days) THEN 0
                                      ELSE Val(sales[i].delivery_speed_days)],
                                  DeliveredFirstRows),
                          Cardinality(DeliveredFirstRows)))

\* two rows of an order delivered in 2 days, one of an order delivered in 9
C23_Witness ==
    /\ result.op = "average_delivery_time"
    /\ Len(sales) = 3
    /\ sales[1].order_id = sales[2].order_id
    /\ sales[1].order_id # sales[3].order_id
    /\ sales[1].delivery_speed_days = Some(2)
    /\ sales[3].delivery_speed_days = Some(9)
    /\ SameNumber(result.val, FloatDiv(11, 2))


(***************************************************************************)
(* The two orders of the stages: run_analysis.py filters the joined sales  *)
(* table to a period and enriches the result; the data flow enriches the   *)
(* whole table and filters afterwards.                                     *)
(***************************************************************************)
TwoDays == 2 * SecondsPerDay

\* the line items of four orders: two items of an order of February 2023, an
\* undelivered order of the last second of 2023, an order of February 2024
\* and an order without purchase timestamp
StageRows ==
    <<[order_id |-> Some(1), product_id |-> Some(1), customer_id |-> Some(1),
       order_purchase_timestamp |-> Some(FirstInstant(2023, 2)),
       order_delivered_customer_date |-> Some(FirstInstant(2023, 2) + TwoDays)],
      [order_id |-> Some(1), product_id |-> Some(2), customer_id |-> Some(1),
       order_purchase_timestamp |-> Some(FirstInstant(2023, 2)),
       order_delivered_customer_date |-> Some(FirstInstant(2023, 2) + TwoDays)],
      [order_id |-> Some(2), product_id |-> Some(1), customer_id |-> Some(2),
       order_purchase_timestamp |-> Some(LastInstant(2023, 12)),
       order_delivered_customer_date |-> Null],
      [order_id |-> Some(3), product_id |-> Some(2), customer_id |-> Some(1),
       order_purchase_timestamp |-> Some(FirstInstant(2024, 2)),
       order_delivered_customer_date |-> Some(FirstInstant(2024, 2) + TwoDays - 1)],
      [order_id |-> Some(4), product_id |-> Some(1), customer_id |-> Some(2),
       order_purchase_timestamp |-> Null,
       order_delivered_customer_date |-> Null]>>

\* start_year, start_month, end_year, end_month
StageBounds ==
    {<<2023, 1, 2023, 12>>, <<2024, 1, 2024, 12>>, <<2023, 12, 2024, 2>>, <<2023, 2, 2023, 11>>}

\* no row, one row, or every candidate row (duplicate keys included)
LookupTables(rows) == {TableOf(rows, S) : S \in {{}, {1}, 1..Len(rows)}}

InitStages == Init

AddStageRow ==
    /\ Len(sales) < MaxStageRows
    /\ result.op = "none"
    /\ \E k \in 1..Len(StageRows) :
          sales' = Append(sales,
                      [c \in (DOMAIN StageRows[k]) \cup {"order_item_id"} |->
                          IF c = "order_item_id" THEN Some(Len(sales) + 1)
                          ELSE StageRows[k][c]])
    /\ UNCHANGED <<revenue_by_month, result>>

\* run_analysis.py: filter_by_date_range, then the enrichment
FilterThenEnrich ==
    /\ result.op = "none"
    /\ \E b \in StageBounds,
          products \in LookupTables(ProductRows),
          customers \in LookupTables(CustomerRows),
          reviews \in LookupTables(ReviewRows) :
          LET filtered == filter_by_date_range(sales, b[1], b[2], b[3], b[4])
          IN result' = [op |-> "filter_then_enrich",
                        bounds |-> b,
                        products |-> products,
                        customers |-> customers,
                        reviews |-> reviews,
                        filtered |-> filtered.df,
                        ret |-> enrich_sales(filtered.df, <<>>, products, customers, reviews)]
    /\ UNCHANGED <<sales, revenue_by_month>>

\* the data flow: the enrichment of the whole table, then the period filter
EnrichThenFilter ==
    /\ result.op = "filter_then_enrich"
    /\ LET enriched == enrich_sales(sales, <<>>, result.products, result.customers,
                                    result.reviews)
           b == result.bounds
       IN result' = [op |-> "enrich_then_filter",
                     bounds |-> b,
                     enriched |-> enriched,
                     filter_first |-> result.ret,
                     filtered |-> result.filtered,
                     ret |-> filter_by_date_range(enriched, b[1], b[2], b[3], b[4]).df]
    /\ UNCHANGED <<sales, revenue_by_month>>

NextStages ==
    \/ AddStageRow
    \/ FilterThenEnrich
    \/ EnrichThenFilter

SpecStages == InitStages /\ [][NextStages]_vars

\* C27: filtering the joined sales table to a period and enriching the result
\* gives the same fact rows as enriching the whole table and filtering it to
\* the period afterwards.
C27_StageOrderDoesNotMatter ==
    result.op = "enrich_then_filter" =>
        /\ {result.ret[i] : i \in 1..Len(result.ret)}
              = {result.filter_first[i] : i \in 1..Len(result.filter_first)}
        /\ result.ret = result.filter_first

\* the filter drops a row, and a kept row is fanned out over two reviews
C27_Witness ==
    /\ result.op = "enrich_then_filter"
    /\ Len(sales) = 2
    /\ Len(result.filtered) = 1
    /\ Len(result.enriched) = 3
    /\ Len(result.ret) = 2
    /\ result.ret[1].review_score # result.ret[2].review_score
    /\ result.ret[1].delivery_category = Some("1-3 days")


(***************************************************************************)
(* The pipeline of run_analysis.py on the heap: one sales table, the three *)
(* lookup tables, and the tables of the current and of the previous        *)
(* period, each taken through filter, enrichment, delivery speed and       *)
(* delivery category; then the comparison and the monthly growth.  The     *)
(* steps of the two periods interleave in any order.                       *)
(***************************************************************************)
Views == {"current", "previous"}
ViewYear == [current |-> 2024, previous |-> 2023]

\* year, month and price of the candidate line items
StageYears == <<Some(2023), Some(2023), Some(2023), Some(2024), Null>>
StageMonths == <<Some(2), Some(2), Some(12), Some(2), Null>>
StagePrices == <<Some(1), Some(2), Some(5), Some(2), Some(1)>>

\* the candidate line items the sales table is loaded with: an order of 2023
\* and an order of 2024
LoadedRows == {1, 4}

\* the references of the tables loaded at the start
SalesAllRef == 1
ProductsRef == 2
CustomersRef == 3
ReviewsRef == 4

InitCalls ==
    /\ sales = [heap |-> <<<<>>, ProductRows, CustomerRows, ReviewRows>>,
                view |-> [v \in Views |-> 0],
                stage |-> [v \in Views |-> 0]]
    /\ revenue_by_month = [monthly_revenue |-> 0, monthly_growth |-> 0]
    /\ result = NoCall

LoadSalesRow ==
    /\ Len(sales.heap[SalesAllRef]) < MaxHeapRows
    /\ result.op = "none"
    /\ \E k \in LoadedRows :
          sales' = [sales EXCEPT !.heap[SalesAllRef] =
                      Append(@, [c \in (DOMAIN StageRows[k])
                                        \cup {"order_item_id", "price", "year", "month"} |->
                                    IF c = "order_item_id" THEN Some(Len(@) + 1)
                                    ELSE IF c = "price" THEN StagePrices[k]
                                    ELSE IF c = "year" THEN StageYears[k]
                                    ELSE IF c = "month" THEN StageMonths[k]
                                    ELSE StageRows[k][c]])]
    /\ UNCHANGED <<revenue_by_month, result>>

\* the step of view v from stage n: the call's heap and returned reference
ViewStep(v, n, op, call) ==
    /\ sales.stage[v] = n
    /\ sales' = [sales EXCEPT !.heap = call.heap, !.view[v] = call.ret, !.stage[v] = n + 1]
    /\ result' = [op |-> op, view |-> v, before |-> sales]
    /\ UNCHANGED revenue_by_month

FilterCall ==
    \E v \in Views :
        ViewStep(v, 0, "filter_by_date_range",
                 filter_by_date_range_call(sales.heap, SalesAllRef,
                                           ViewYear[v], 1, ViewYear[v], 12))

ProductCategoriesCall ==
    \E v \in Views :
        ViewStep(v, 1, "add_product_categories",
                 add_product_categories_call(sales.heap, sales.view[v], ProductsRef))

CustomerGeographyCall ==
    \E v \in Views :
        ViewStep(v, 2, "add_customer_geography",
                 add_customer_geography_call(sales.heap, sales.view[v], <<>>, CustomersRef))

ReviewScoresCall ==
    \E v \in Views :
        ViewStep(v, 3, "add_review_scores",
                 add_review_scores_call(sales.heap, sales.view[v], ReviewsRef))

DeliverySpeedCall ==
    \E v \in Views :
        ViewStep(v, 4, "calculate_delivery_speed",
                 calculate_delivery_speed_call(sales.heap, sales.view[v]))

DeliveryCategoryAssignment ==
    \E v \in Views :
        ViewStep(v, 5, "assign_delivery_category",
                 assign_delivery_category_call(sales.heap, sales.view[v]))

\* the metric functions read the tables of both periods
CompareCall ==
    /\ \A v \in Views : sales.stage[v] = 6
    /\ result' = [op |-> "compare_periods", view |-> "both", before |-> sales,
                  val |-> compare_periods(sales.heap[sales.view.current],
                                          sales.heap[sales.view.previous])]
    /\ UNCHANGED <<sales, revenue_by_month>>

MonthlyRevenueCall ==
    /\ sales.stage.current = 6
    /\ revenue_by_month.monthly_revenue = 0
    /\ LET call == calculate_revenue_by_period_call(sales.heap, sales.view.current,
                                                    "year-month")
       IN /\ sales' = [sales EXCEPT !.heap = call.heap]
          /\ revenue_by_month' = [revenue_by_month EXCEPT !.monthly_revenue = call.ret]
    /\ result' = [op |-> "calculate_revenue_by_period", view |-> "both", before |-> sales]

MoMGrowthCall ==
    /\ revenue_by_month.monthly_revenue # 0
    /\ revenue_by_month.monthly_growth = 0
    /\ LET call == calculate_mom_growth_call(sales.heap, revenue_by_month.monthly_revenue)
       IN /\ sales' = [sales EXCEPT !.heap = call.heap]
          /\ revenue_by_month' = [revenue_by_month EXCEPT !.monthly_growth = call.ret]
    /\ result' = [op |-> "calculate_mom_growth", view |-> "both", before |-> sales]

NextCalls ==
    \/ LoadSalesRow
    \/ FilterCall
    \/ ProductCategoriesCall
    \/ CustomerGeographyCall
    \/ ReviewScoresCall
    \/ DeliverySpeedCall
    \/ DeliveryCategoryAssignment
    \/ CompareCall
    \/ MonthlyRevenueCall
    \/ MoMGrowthCall

SpecCalls == InitCalls /\ [][NextCalls]_vars

\* C26: a call of filter_by_date_range, of an enrichment step, of
\* calculate_delivery_speed, of calculate_mom_growth or of a metric function
\* leaves every table that existed before the call as it was, the tables
\* passed to it included; the sales table both periods derive from is never
\* changed, and no step taken for one period changes the table of the other.
C26_CallsLeaveTablesUnchanged ==
    result.op # "none" =>
        LET before == result.before.heap
            after == sales.heap
        IN /\ Len(after) >= Len(before)
           /\ result.op # "assign_delivery_category" =>
                 \A ref \in 1..Len(before) : after[ref] = before[ref]
           /\ after[SalesAllRef] = before[SalesAllRef]
           /\ \A v \in Views \ {result.view} :
                 /\ sales.view[v] = result.before.view[v]
                 /\ sales.view[v] # 0 => after[sales.view[v]] = before[sales.view[v]]
           /\ \A v \in Views :
                 sales.view[v] # 0 =>
                     /\ sales.view[v] \notin {SalesAllRef, ProductsRef, CustomersRef, ReviewsRef}
                     /\ \A w \in Views \ {v} : sales.view[w] # sales.view[v]

\* the previous period gets its delivery speed after the current period got
\* its delivery category: the table passed in has no speed column
C26_Witness ==
    /\ result.op = "calculate_delivery_speed"
    /\ result.view = "previous"
    /\ sales.stage.current = 6
    /\ Len(sales.heap[SalesAllRef]) = 2
    /\ sales.heap[sales.view.current] # <<>>
    /\ sales.heap[sales.view.previous] # <<>>
    /\ result.before.heap[result.before.view.previous] # <<>>
    /\ "delivery_speed_days" \in DOMAIN sales.heap[sales.view.previous][1]
    /\ "delivery_speed_days" \notin DOMAIN sales.heap[result.before.view.previous][1]
    /\ "delivery_category" \in DOMAIN sales.heap[sales.view.current][1]
    /\ sales.heap[result.before.view.previous]
          = result.before.heap[result.before.view.previous]

====
